---- MODULE Spec2Model ----
(***************************************************************************)
(* A model of the trojan-rs client's flow engine:                          *)
(*   - the bypass profiler, src/src/proxy/net_profiler.rs  (SpecProfiler)  *)
(*   - the proxy_lost arithmetic of NetProfiler::update     (SpecLoss)     *)
(*   - the UDP relay of the wintun engine, src/src/wintun/udp1.rs          *)
(*                                                          (SpecUdp)      *)
(* Every specification shares the variables below; the variables of the    *)
(* components a specification does not drive keep their initial values.    *)
(***************************************************************************)
EXTENDS Integers, Sequences, FiniteSets, TLC

VARIABLES
    \* ---- NetProfiler (net_profiler.rs:54-62) and its collaborators
    set,             \* NetProfiler::set : IpAddr -> PingResult (rows of the table)
    cond,            \* the process-wide CONDITION (net_profiler.rs:70-77)
    now,             \* the clock read by Instant::now(), in whole seconds
    check_queue,     \* the IPs sent on check_sender whose do_check has not answered
    resp_queue,      \* do_check -> resp_receiver channel ((IpAddr, u16, u8))
    conn,            \* NetProfiler::conn : "none" | "open" | "shutdown"
    send_buffer,     \* NetProfiler::send_buffer (bytes)
    recv_buffer,     \* NetProfiler::recv_buffer (bytes)
    wire_rx,         \* bytes the relay wrote on the ping channel, not yet read
    started,         \* whether the owner has called initialize
    req_alive,       \* whether start_request still holds the check receiver
    overflow_checks, \* build profile: TRUE panics on u16 overflow, FALSE wraps
    panicked,        \* the thread driving the profiler has panicked
    out,             \* what the last operation sent (its observable outputs)
    decided,         \* history: decisions sent per IP since its last measurement
    \* ---- UdpServer (udp1.rs:277-282) and its Connections (udp1.rs:67-76)
    conns,           \* the Connection objects behind the Arcs, by object id
    addr2conns,      \* UdpServer::addr2conns : source endpoint -> Connection
    token2conns,     \* UdpServer::token2conns : Token -> Connection
    sockets,         \* UdpServer::sockets : socket endpoint -> last active
    next_index,      \* next_token's static NEXT_INDEX
    udp_panicked,    \* the thread driving the UdpServer has panicked
    uout,            \* what the last UdpServer operation did (its observable effects)
    \* ---- pure-function harness (SpecLoss)
    arg,             \* the inputs drawn for the function under check
    res,             \* the value the function returned for arg
    \* ---- the lock of CONDITION (net_profiler.rs:69-76) and its two users
    cond_lock,       \* RwLock state, check_server's and update's positions
    \* ---- the mobile bridge (mobile/src-tauri/src/platform/android.rs)
    android,         \* CONTEXT, the VPN workers, the host's descriptors and events
    \* ---- the desktop engine's driving loop (awintun/mod.rs)
    device,          \* async_run's position, its TunDevice and the workers spawned
    \* ---- the desktop shell (trojan-client/src-tauri/src/main.rs)
    shell            \* TrojanState, the tasks of start, the engine children, the UI

profiler_vars == <<set, cond, check_queue, resp_queue, conn, send_buffer,
                   recv_buffer, wire_rx, started, req_alive, overflow_checks,
                   panicked, out, decided>>
udp_vars == <<conns, addr2conns, token2conns, sockets, next_index, udp_panicked,
              uout>>
fn_vars == <<arg, res>>
rest_vars == <<cond_lock, android, device, shell>>
vars == <<now, profiler_vars, udp_vars, fn_vars, rest_vars>>
other_than_profiler == <<udp_vars, fn_vars, rest_vars>>
other_than_udp == <<profiler_vars, fn_vars, rest_vars>>

(***************************************************************************)
(* Bounds of the model.                                                    *)
(***************************************************************************)
MaxQueue == 1        \* most entries held by check_queue and by resp_queue
MaxUnread == 0       \* the relay writes only while at most so many bytes are unread
MaxUnsent == 5       \* most bytes send_buffer holds while there is no connection
MaxIndexSpan == 2    \* how many indices next_token hands out before it wraps
MaxInFlight == 24    \* most bytes the relay has in flight on one UDP flow
MaxAccept == 22      \* most bytes TLS accepts during one event
MaxArcs == 2        \* most `running` flags the bridge creates (init_rust, on_vpn_start)
MaxPayload == 1499  \* longest payload of the large-record check
MaxPings == 2       \* most ping records in the stream of the split-decode check
MaxResends == 2     \* most re-sends of update that the log of re-sends keeps
MaxChildren == 2    \* most tasks start spawns, and so most engine children
MaxFailed == 2      \* most echoes that time out at the start, and at the end, of a probe
MaxStarts == 2      \* most on_vpn_start calls of the interleaved bridge
MaxRecords == 2     \* most records in the inbound stream of the split-read check
MaxNow == 1204       \* how far the clock of the idle flows runs, in seconds

(***************************************************************************)
(* Program constants.                                                      *)
(***************************************************************************)
U8_MAX == 255
U16_MAX == 65535
U16_MOD == 65536
DEDUP_SECS == 3600
STALE_SECS == 100
N_ECHO == 100
IPV4 == 1
IPV6 == 4
COND_PING_INIT == 200
COND_LOST_INIT == 3

Min(a, b) == IF a < b THEN a ELSE b
MaxOf(S) == CHOOSE x \in S : \A y \in S : y <= x

(***************************************************************************)
(* Destination addresses: an IpAddr is its octets (4 for V4, 16 for V6).   *)
(***************************************************************************)
IP4A == <<10, 0, 0, 2>>
IP4B == <<8, 8, 8, 8>>
IP6A == <<32, 1, 13, 184, 0, 0, 0, 0, 0, 0, 0, 0, 0, 0, 0, 1>>
IPS == {IP4A, IP4B, IP6A}

(***************************************************************************)
(* PingResult.  Two more fields record the history of the row: whether a   *)
(* direct result (direct_recorded) and a remote result (remote_recorded)   *)
(* have been written to it.                                                *)
(***************************************************************************)
DefaultRow(t) ==
    [last_time |-> t, local_lost |-> U8_MAX, local_ping |-> U16_MAX,
     remote_lost |-> U8_MAX, remote_ping |-> U16_MAX,
     direct_recorded |-> FALSE, remote_recorded |-> FALSE]

IsComplete(pr) ==
    /\ pr.local_lost # U8_MAX
    /\ pr.local_ping # U16_MAX
    /\ pr.remote_lost # U8_MAX
    /\ pr.remote_ping # U16_MAX

Elapsed(pr) == now - pr.last_time

(***************************************************************************)
(* Wire encoding of the ping channel.                                      *)
(***************************************************************************)
U16Bytes(n) == <<n \div 256, n % 256>>
U16Of(hi, lo) == hi * 256 + lo
Atyp(ip) == IF Len(ip) = 4 THEN IPV4 ELSE IPV6
PingRequest(ip) == <<Atyp(ip)>> \o ip
PingRecord(ip, ping, lost) == <<Atyp(ip)>> \o ip \o U16Bytes(ping) \o <<lost>>

(***************************************************************************)
(* The ICMP probe loop shared by do_check and check_server.  A probe is    *)
(* the outcome of its N_ECHO echoes: the first `lead` and the last `tail`  *)
(* echoes time out, the others succeed with latency `cost` (ms, at most    *)
(* the 999 ms timeout set at net_profiler.rs:173 and :211).                *)
(***************************************************************************)
Probe(lead, tail, cost) == [lead |-> lead, tail |-> tail, cost |-> cost]
EchoOk(p, i) == i >= p.lead /\ i < N_ECHO - p.tail

\* `for i in 0..100u128 { ... }` from turn i on, with the running avg_cost and
\* lost_ratio.  (The test on the two accumulators is always true: it makes the
\* evaluator compute them at every turn instead of nesting 100 pending updates.)
RECURSIVE EchoLoop(_, _, _, _)
EchoLoop(p, i, avg_cost, lost_ratio) ==
    IF i = N_ECHO \/ avg_cost + lost_ratio < 0
    THEN [avg_cost |-> avg_cost, lost_ratio |-> lost_ratio]
    ELSE IF EchoOk(p, i)
         THEN EchoLoop(p, i + 1, ((avg_cost * i) + p.cost) \div (i + 1), lost_ratio)
         ELSE EchoLoop(p, i + 1, avg_cost, lost_ratio + 1)

ProbeLoop(p) == EchoLoop(p, 0, 0, 0)

\* do_check's message (ip, avg_cost as u16, lost_ratio), r being what the loop
\* ended with
DoCheckResult(ip, r) == <<ip, r.avg_cost % U16_MOD, r.lost_ratio % (U8_MAX + 1)>>

\* check_server's write to CONDITION (lost_ratio as u8, avg_cost as u16)
ServerCondition(r) ==
    [ping |-> r.avg_cost % U16_MOD, lost |-> r.lost_ratio % (U8_MAX + 1)]

(***************************************************************************)
(* NetProfiler::update, lines 428-435: the decision for one complete row.  *)
(***************************************************************************)
\* `x as u8` of the f32 quotient num/den: truncation toward zero, saturating.
\* The f32 operations are exact here: |num| < 2^24, and a quotient that is not
\* an integer lies at least 1/100 from one, far more than an f32 rounding.
F32DivAsU8(num, den) ==
    IF num <= 0 THEN 0 ELSE Min(num \div den, U8_MAX)

ProxyLostRoundedLast(c, pr) ==
    100 - F32DivAsU8((100 - c.lost) * (100 - pr.remote_lost) + 99, 100)
ProxyLost(c, pr) ==
    100 - F32DivAsU8((100 - c.lost) * (100 - pr.remote_lost), 100)

ProxyPing(c, pr) == (c.ping + pr.remote_ping) % U16_MOD

BypassByLatency(pr, proxy_ping, proxy_lost) == pr.local_ping < proxy_ping
BypassLe(pr, proxy_ping, proxy_lost) ==
    /\ pr.local_ping <= proxy_ping
    /\ pr.local_lost < proxy_lost
    /\ pr.local_ping > pr.remote_ping
Bypass(pr, proxy_ping, proxy_lost) ==
    /\ pr.local_ping < proxy_ping
    /\ pr.local_lost < proxy_lost
    /\ pr.local_ping > pr.remote_ping

\* c.ping + pr.remote_ping in u16, 100 - x in u8: a panic when the build checks
\* overflow, a wrap otherwise.
Overflows(c, pr) ==
    \/ c.ping + pr.remote_ping > U16_MAX
    \/ F32DivAsU8((100 - c.lost) * (100 - pr.remote_lost), 100) > 100

Decide(ip, c, pr) ==
    LET proxy_ping == ProxyPing(c, pr)
        proxy_lost == ProxyLost(c, pr) % (U8_MAX + 1)
    IN  [ip |-> ip, bypass |-> Bypass(pr, proxy_ping, proxy_lost),
         proxy_ping |-> proxy_ping, proxy_lost |-> proxy_lost]

\* ips1.iter().for_each(...): the decisions sent, up to a panic.
RECURSIVE Decisions(_, _, _, _)
Decisions(ips, s, c, acc) ==
    IF ips = <<>> THEN [sent |-> acc, panic |-> FALSE]
    ELSE IF Overflows(c, s[Head(ips)]) /\ overflow_checks
         THEN [sent |-> acc, panic |-> TRUE]
         ELSE Decisions(Tail(ips), s, c,
                        Append(acc, Decide(Head(ips), c, s[Head(ips)])))

(***************************************************************************)
(* NetProfiler::update, lines 382-390: drain the responses of do_check.    *)
(***************************************************************************)
\* lost.min(u8::MAX - 1) and ping.min(u16::MAX - 1), in update and in decode.
KeepLost(lost) == lost
ClampLost(lost) == Min(lost, U8_MAX - 1)
ClampPing(ping) == Min(ping, U16_MAX - 1)

RECURSIVE ApplyResponses(_, _)
ApplyResponses(s, q) ==
    IF q = <<>> THEN s
    ELSE LET ip == Head(q)[1]
             ping == Head(q)[2]
             lost == Head(q)[3]
         IN  IF ip \in DOMAIN s
             THEN ApplyResponses(
                      [s EXCEPT ![ip].local_lost = ClampLost(lost),
                                ![ip].local_ping = ClampPing(ping),
                                ![ip].direct_recorded = TRUE],
                      Tail(q))
             ELSE ApplyResponses(s, Tail(q))

(***************************************************************************)
(* NetProfiler::update, lines 399-419: itertools' group_by over the table  *)
(* in iteration order groups CONSECUTIVE rows of equal key; every group    *)
(* overwrites ips1 (key 1) or ips0 (key 0), so the last group of each key  *)
(* is the one kept.                                                        *)
(***************************************************************************)
Orders(S) ==
    {f \in [1..Cardinality(S) -> S] : \A i, j \in 1..Cardinality(S) : f[i] = f[j] => i = j}

LastGroup(ord, s, key) ==
    LET idx == {i \in 1..Len(ord) : IsComplete(s[ord[i]]) = key}
    IN  IF idx = {} THEN <<>>
        ELSE LET hi == MaxOf(idx)
                 lo == CHOOSE l \in 1..hi :
                          /\ \A k \in l..hi : k \in idx
                          /\ (l = 1 \/ (l - 1) \notin idx)
             IN  SubSeq(ord, lo, hi)

StaleSecs(pr) == Elapsed(pr) > STALE_SECS

Ips1(ord, s) == LastGroup(ord, s, TRUE)
Ips0(ord, s) ==
    LET Stale(ip) == StaleSecs(s[ip])
    IN  SelectSeq(LastGroup(ord, s, FALSE), Stale)

(***************************************************************************)
(* NetProfiler::send_remote_ip.  io is [sb: send_buffer, tx: bytes written *)
(* to the ping session by the current operation].  TlsConn::write_session  *)
(* on a connection that is shut down fails and the bytes are lost.         *)
(***************************************************************************)
SendRemoteIp(ip, io) ==
    LET sb == io.sb \o PingRequest(ip)
    IN  CASE conn = "none" -> [sb |-> sb, tx |-> io.tx]
          [] conn = "open" -> [sb |-> <<>>, tx |-> io.tx \o sb]
          [] OTHER -> [sb |-> <<>>, tx |-> io.tx]

RECURSIVE SendRemoteIps(_, _)
SendRemoteIps(ips, io) ==
    IF ips = <<>> THEN io
    ELSE SendRemoteIps(Tail(ips), SendRemoteIp(Head(ips), io))

(***************************************************************************)
(* NetProfiler::decode: consume whole records from the front of            *)
(* recv_buffer.  d is [buf, set, seen, panic].                             *)
(***************************************************************************)
RecordLenOfIpv4(atyp) == 8
RecordLen(atyp) == IF atyp = IPV4 THEN 8 ELSE 20

RECURSIVE Decode(_)
Decode(d) ==
    IF d.buf = <<>> THEN d
    ELSE IF Head(d.buf) \notin {IPV4, IPV6} THEN [d EXCEPT !.panic = TRUE]
    ELSE LET n == RecordLen(Head(d.buf))
         IN  IF Len(d.buf) < n THEN d
             ELSE LET ip == SubSeq(d.buf, 2, n - 3)
                      ping == U16Of(d.buf[n - 2], d.buf[n - 1])
                      lost == d.buf[n]
                      rest == SubSeq(d.buf, n + 1, Len(d.buf))
                  IN  IF ip \in DOMAIN d.set
                      THEN Decode([buf |-> rest,
                                   set |-> [d.set EXCEPT
                                       ![ip].remote_lost = ClampLost(lost),
                                       ![ip].remote_ping = ClampPing(ping),
                                       ![ip].remote_recorded = TRUE],
                                   seen |-> d.seen \cup {ip},
                                   panic |-> FALSE])
                      ELSE Decode([d EXCEPT !.buf = rest])

(***************************************************************************)
(* The operations of the profiler.                                         *)
(***************************************************************************)
NoOutput(op, ip) ==
    [op |-> op, ip |-> ip, skipped |-> FALSE, tx |-> <<>>, probe |-> <<>>,
     ipset |-> <<>>, cond |-> <<>>, again |-> {}, resent |-> <<>>]

\* NetProfiler::new(true, ..): the state after construction.
ProfilerInit ==
    /\ set = << >>
    /\ cond = [ping |-> COND_PING_INIT, lost |-> COND_LOST_INIT]
    /\ now = 0
    /\ check_queue = <<>>
    /\ resp_queue = <<>>
    /\ conn = "none"
    /\ send_buffer = <<>>
    /\ recv_buffer = <<>>
    /\ wire_rx = <<>>
    /\ started = FALSE
    /\ req_alive = TRUE
    /\ panicked = FALSE
    /\ out = NoOutput("new", <<>>)
    /\ decided = {}

Running == started /\ ~panicked

\* The owner of the NetProfiler opens the ping channel at startup.
Startup == ~started

\* NetProfiler::initialize: pool.get, reset_index and write_session each may fail.
Initialize ==
    /\ Startup
    /\ started' = TRUE
    /\ \E ok \in BOOLEAN : conn' = IF ok THEN "open" ELSE "none"
    /\ out' = NoOutput("initialize", <<>>)
    /\ UNCHANGED <<set, cond, now, check_queue, resp_queue, send_buffer,
                   recv_buffer, wire_rx, req_alive, overflow_checks, panicked,
                   decided>>
    /\ UNCHANGED other_than_profiler

\* The clock advances to t.
Tick(t) ==
    /\ t > now
    /\ now' = t
    /\ UNCHANGED <<profiler_vars, udp_vars, fn_vars, rest_vars>>

\* check's early return: a row exists and was registered less than 3600 s ago.
DebouncedNever(ip) == FALSE
Debounced(ip) == ip \in DOMAIN set /\ Elapsed(set[ip]) < DEDUP_SECS

\* NetProfiler::check(ip)
Check(ip) ==
    /\ Running
    /\ Len(check_queue) < MaxQueue
    /\ IF Debounced(ip)
       THEN /\ out' = [NoOutput("check", ip) EXCEPT !.skipped = TRUE]
            /\ UNCHANGED <<set, send_buffer, check_queue>>
       ELSE LET io == SendRemoteIp(ip, [sb |-> send_buffer, tx |-> <<>>])
            IN  /\ Len(io.sb) <= MaxUnsent
                /\ send_buffer' = io.sb
                /\ IF req_alive
                   THEN /\ check_queue' = Append(check_queue, ip)
                        /\ set' = IF ip \in DOMAIN set
                                  THEN [set EXCEPT ![ip].last_time = now]
                                  ELSE set @@ (ip :> DefaultRow(now))
                        /\ out' = [NoOutput("check", ip) EXCEPT
                                       !.tx = io.tx, !.probe = <<ip>>]
                   ELSE /\ UNCHANGED <<check_queue, set>>
                        /\ out' = [NoOutput("check", ip) EXCEPT !.tx = io.tx]
    /\ UNCHANGED <<cond, now, resp_queue, conn, recv_buffer, wire_rx,
                   started, req_alive, overflow_checks, panicked, decided>>
    /\ UNCHANGED other_than_profiler

\* start_request takes the IP at the head of the queue and skips it: the
\* no-bypass set already holds it (session.test, unix only).
RequestSkipped ==
    /\ req_alive
    /\ check_queue # <<>>
    /\ check_queue' = Tail(check_queue)
    /\ UNCHANGED <<set, cond, now, resp_queue, conn, send_buffer, recv_buffer,
                   wire_rx, started, req_alive, overflow_checks, panicked, out,
                   decided>>
    /\ UNCHANGED other_than_profiler

\* The request routine ends (Client::new(..).unwrap() at line 138 panics, or the
\* runtime stops): the receiver of check_sender is dropped.
RequestRoutineStops ==
    /\ req_alive
    /\ req_alive' = FALSE
    /\ UNCHANGED <<set, cond, now, check_queue, resp_queue, conn,
                   send_buffer, recv_buffer, wire_rx, started, overflow_checks,
                   panicked, out, decided>>
    /\ UNCHANGED other_than_profiler

\* start_request has spawned do_check for the i-th queued IP (tokio::spawn: the
\* tasks finish in any order); its 100 echoes end with r = [avg_cost,
\* lost_ratio] and it sends its result.
DoCheck(i, r) ==
    /\ i \in 1..Len(check_queue)
    /\ Len(resp_queue) < MaxQueue
    /\ check_queue' = SubSeq(check_queue, 1, i - 1)
                         \o SubSeq(check_queue, i + 1, Len(check_queue))
    /\ resp_queue' = Append(resp_queue, DoCheckResult(check_queue[i], r))
    /\ UNCHANGED <<set, cond, now, conn, send_buffer, recv_buffer, wire_rx,
                   started, req_alive, overflow_checks, panicked, out, decided>>
    /\ UNCHANGED other_than_profiler

\* check_server finishes a round with r = [avg_cost, lost_ratio] and writes
\* CONDITION under the write lock.
CheckServer(r) ==
    /\ cond' = ServerCondition(r)
    /\ UNCHANGED <<set, now, check_queue, resp_queue, conn, send_buffer,
                   recv_buffer, wire_rx, started, req_alive, overflow_checks,
                   panicked, out, decided>>
    /\ UNCHANGED other_than_profiler

\* NetProfiler::update, the table being iterated in the order ord and c being
\* the copy of CONDITION that line 397 takes.
UpdateUsing(ord, c) ==
    /\ Running
    /\ ord \in Orders(DOMAIN set)
    /\ LET s1 == ApplyResponses(set, resp_queue)
           measured == {resp_queue[i][1] : i \in DOMAIN resp_queue} \cap DOMAIN set
           io == SendRemoteIps(Ips0(ord, s1), [sb |-> send_buffer, tx |-> <<>>])
           dec == Decisions(Ips1(ord, s1), s1, c, <<>>)
           sent == {dec.sent[i].ip : i \in DOMAIN dec.sent}
       IN  /\ Len(io.sb) <= MaxUnsent
           /\ set' = s1
           /\ resp_queue' = <<>>
           /\ send_buffer' = io.sb
           /\ panicked' = dec.panic
           /\ out' = [NoOutput("update", <<>>) EXCEPT
                          !.tx = io.tx, !.ipset = dec.sent, !.cond = c,
                          !.again = sent \cap (decided \ measured),
                          !.resent = Ips0(ord, s1)]
           /\ decided' = (decided \ measured) \cup sent
    /\ UNCHANGED <<cond, now, check_queue, conn, recv_buffer, wire_rx,
                   started, req_alive, overflow_checks>>

\* update while no check_server holds the write lock: the read lock is taken,
\* the copy made and the lock released with nothing in between.
Update(ord) ==
    /\ UpdateUsing(ord, cond)
    /\ UNCHANGED other_than_profiler

(***************************************************************************)
(* CONDITION's RwLock, with check_server's write (net_profiler.rs:226-229) *)
(* and update's read (net_profiler.rs:392-397) taken apart into the steps  *)
(* another thread can come between.  cond_lock holds the lock (writer,     *)
(* readers), where each of the two threads is (server, update), the values *)
(* check_server is writing (pending) and update has copied (snapshot), and *)
(* the history of the values CONDITION held after a whole write (whole).   *)
(***************************************************************************)
InitialCondition == [ping |-> COND_PING_INIT, lost |-> COND_LOST_INIT]

LockInit ==
    cond_lock = [writer |-> FALSE, readers |-> 0,
                 server |-> "idle", pending |-> InitialCondition,
                 update |-> "idle", snapshot |-> InitialCondition,
                 whole |-> {}]

\* RwLock::write returns once there is neither a writer nor a reader;
\* RwLock::read returns once there is no writer.
CanWrite(l) == ~l.writer /\ l.readers = 0
CanReadAnyway(l) == TRUE
CanRead(l) == ~l.writer

\* check_server ends a round with r = [avg_cost, lost_ratio] and takes the
\* write lock (CONDITION.write(), line 226).
ServerLocks(r) ==
    /\ cond_lock.server = "idle"
    /\ CanWrite(cond_lock)
    /\ cond_lock' = [cond_lock EXCEPT !.writer = TRUE, !.server = "locked",
                                      !.pending = ServerCondition(r)]
    /\ UNCHANGED <<now, profiler_vars, udp_vars, fn_vars, android, device, shell>>

\* cond.lost = lost_ratio as u8 (line 227)
ServerWritesLost ==
    /\ cond_lock.server = "locked"
    /\ cond' = [cond EXCEPT !.lost = cond_lock.pending.lost]
    /\ cond_lock' = [cond_lock EXCEPT !.server = "lost_written"]
    /\ UNCHANGED <<set, now, check_queue, resp_queue, conn, send_buffer,
                   recv_buffer, wire_rx, started, req_alive, overflow_checks,
                   panicked, out, decided>>
    /\ UNCHANGED <<udp_vars, fn_vars, android, device, shell>>

\* cond.ping = avg_cost as u16 (line 228); the closure ends and drops the
\* guard.
ServerWritesPing ==
    /\ cond_lock.server = "lost_written"
    /\ cond' = [cond EXCEPT !.ping = cond_lock.pending.ping]
    /\ cond_lock' = [cond_lock EXCEPT !.server = "idle", !.writer = FALSE,
                                      !.whole = @ \cup {cond_lock.pending}]
    /\ UNCHANGED <<set, now, check_queue, resp_queue, conn, send_buffer,
                   recv_buffer, wire_rx, started, req_alive, overflow_checks,
                   panicked, out, decided>>
    /\ UNCHANGED <<udp_vars, fn_vars, android, device, shell>>

\* update as far as `let cond = CONDITION.read()` (lines 379-393), no
\* response waiting on the channel.
UpdateLocks ==
    /\ Running
    /\ resp_queue = <<>>
    /\ cond_lock.update = "idle"
    /\ CanRead(cond_lock)
    /\ cond_lock' = [cond_lock EXCEPT !.readers = @ + 1, !.update = "locked"]
    /\ UNCHANGED <<now, profiler_vars, udp_vars, fn_vars, android, device, shell>>

\* `let cond: Condition = cond.unwrap().clone();` (line 397): the guard is a
\* temporary of the statement and is dropped at its end.
UpdateCopies ==
    /\ cond_lock.update = "locked"
    /\ cond_lock' = [cond_lock EXCEPT !.snapshot = cond, !.readers = @ - 1,
                                      !.update = "copied"]
    /\ UNCHANGED <<now, profiler_vars, udp_vars, fn_vars, android, device, shell>>

\* The rest of update (lines 399-446), with the copy.
UpdateRest(ord) ==
    /\ cond_lock.update = "copied"
    /\ UpdateUsing(ord, cond_lock.snapshot)
    /\ cond_lock' = [cond_lock EXCEPT !.update = "idle"]
    /\ UNCHANGED <<udp_vars, fn_vars, android, device, shell>>

\* The relay writes the ping record (ip, ping, lost) on the channel.
RelayReplies(ip, ping, lost) ==
    /\ conn = "open"
    /\ Len(wire_rx) <= MaxUnread
    /\ wire_rx' = wire_rx \o PingRecord(ip, ping, lost)
    /\ UNCHANGED <<set, cond, now, check_queue, resp_queue, conn,
                   send_buffer, recv_buffer, started, req_alive, overflow_checks,
                   panicked, out, decided>>
    /\ UNCHANGED other_than_profiler

\* The relay writes a byte that starts no record.
RelayMisbehaves ==
    /\ conn = "open"
    /\ Len(wire_rx) <= MaxUnread
    /\ wire_rx' = wire_rx \o <<0>>
    /\ UNCHANGED <<set, cond, now, check_queue, resp_queue, conn,
                   send_buffer, recv_buffer, started, req_alive, overflow_checks,
                   panicked, out, decided>>
    /\ UNCHANGED other_than_profiler

\* The ping connection is lost (peer close, socket or TLS error).
ConnBreaks ==
    /\ conn = "open"
    /\ conn' = "shutdown"
    /\ UNCHANGED <<set, cond, now, check_queue, resp_queue, send_buffer,
                   recv_buffer, wire_rx, started, req_alive, overflow_checks,
                   panicked, out, decided>>
    /\ UNCHANGED other_than_profiler

\* NetProfiler::ready(event), and NetProfiler::reset when it finds the
\* connection shut down.  n is the number of bytes do_read returns (0: nothing
\* to read, or the event is not readable); writable is the event's other
\* flag; ok is whether the initialize that reset calls succeeds.
ReadyOn(n, writable, ok) ==
    /\ Running
    /\ conn # "none"
    /\ n <= Len(wire_rx)
    /\ n > 0 => conn = "open"
    /\ LET d == Decode([buf |-> recv_buffer \o SubSeq(wire_rx, 1, n), set |-> set,
                        seen |-> {}, panic |-> FALSE])
           flushed == IF writable /\ conn = "open" THEN send_buffer ELSE <<>>
       IN  /\ recv_buffer' = d.buf
           /\ set' = d.set
           /\ panicked' = d.panic
           /\ decided' = decided \ d.seen
           /\ send_buffer' = IF writable /\ ~d.panic THEN <<>> ELSE send_buffer
           /\ out' = [NoOutput("ready", <<>>) EXCEPT
                          !.tx = IF d.panic THEN <<>> ELSE flushed]
           /\ IF conn = "shutdown" /\ ~d.panic
              THEN /\ conn' = IF ok THEN "open" ELSE "none"
                   /\ wire_rx' = <<>>
              ELSE /\ conn' = conn
                   /\ wire_rx' = SubSeq(wire_rx, n + 1, Len(wire_rx))
    /\ UNCHANGED <<cond, now, check_queue, resp_queue, started, req_alive,
                   overflow_checks>>

Ready(n, writable, ok) ==
    /\ ReadyOn(n, writable, ok)
    /\ UNCHANGED other_than_profiler

(***************************************************************************)
(* UDP flows (wintun/udp1.rs): wire encoding.                              *)
(***************************************************************************)
IDLE_SECS == 600
LBUFFER_CAP == 1500
UDP_ASSOCIATE == 3
CRLF == <<13, 10>>
MIN_INDEX == 2
MAX_INDEX == MIN_INDEX + MaxIndexSpan

Take(s, n) == SubSeq(s, 1, n)
DropN(s, n) == SubSeq(s, n + 1, Len(s))
IsPrefix(p, s) == Len(p) <= Len(s) /\ Take(s, Len(p)) = p

Endpoint(addr, port) == [addr |-> addr, port |-> port]
EMPTY_ADDR == Endpoint(<<0, 0, 0, 0>>, 0)
EncodeAddr(ep) == <<Atyp(ep.addr)>> \o ep.addr \o U16Bytes(ep.port)

\* TrojanRequest::generate(UDP_ASSOCIATE, empty_addr): CMD || ADDR || CRLF.
Preamble == <<UDP_ASSOCIATE>> \o EncodeAddr(EMPTY_ADDR) \o CRLF

\* UdpAssociate::generate_endpoint(dst, len as u16): ADDR || LEN || CRLF.
GenerateEndpoint(dst, len) == EncodeAddr(dst) \o U16Bytes(len % U16_MOD) \o CRLF

UdpRecord(dst, data) == GenerateEndpoint(dst, Len(data)) \o data

\* UdpAssociate::parse_endpoint on the unparsed bytes: "continued" when the
\* record is not whole yet, "invalid" on an unknown address type, else the
\* packet's address and payload and the bytes after it.
AddrLen(atyp) == IF atyp = IPV4 THEN 4 ELSE 16
HeaderLen(atyp) == 1 + AddrLen(atyp) + 2 + 2 + 2
ParseEndpoint(buf) ==
    IF buf = <<>> THEN [kind |-> "continued"]
    ELSE IF buf[1] \notin {IPV4, IPV6} THEN [kind |-> "invalid"]
    ELSE LET h == HeaderLen(buf[1]) IN
         IF Len(buf) < h THEN [kind |-> "continued"]
         ELSE LET length == U16Of(buf[h - 3], buf[h - 2]) IN
              IF Len(buf) < h + length THEN [kind |-> "continued"]
              ELSE [kind |-> "packet",
                    addr |-> Endpoint(SubSeq(buf, 2, h - 6),
                                      U16Of(buf[h - 5], buf[h - 4])),
                    payload |-> SubSeq(buf, h + 1, h + length),
                    rest |-> DropN(buf, h + length)]

(***************************************************************************)
(* Connection.  A Connection is a record of the struct's fields; `remote`  *)
(* is represented by what it has in flight: rx, the bytes the relay has    *)
(* sent that the client has not read yet.  Four more fields record the     *)
(* history of the TLS stream: unsent, the bytes of the accepted datagrams' *)
(* records that TLS has not taken yet; corrupt, whether TLS ever took      *)
(* record bytes other than the next ones of unsent (unsent is no longer     *)
(* kept after that); pre_sent, how many     *)
(* bytes of the preamble TLS took; rec_early, whether TLS took a record    *)
(* byte before the whole preamble.  seen is when a datagram was last       *)
(* observed on the flow, in either direction; peers are the destinations   *)
(* the flow's source has sent datagrams to.                                *)
(***************************************************************************)
NewConnection(token, handle, src) ==
    [token |-> token, local |-> handle, endpoint |-> src,
     rclosed |-> FALSE, established |-> FALSE,
     rbuffer |-> <<>>, lbuffer |-> <<>>, rx |-> <<>>, seen |-> now,
     peers |-> {},
     unsent |-> <<>>, corrupt |-> FALSE, pre_sent |-> 0, rec_early |-> FALSE]

\* The run of one handler on one Connection: the Connection (c), what the
\* environment will still let it do (k: bytes TLS accepts before it stops
\* accepting; room: datagrams the local socket's send queue accepts) and
\* what it has done so far.
Run(c, k, room) ==
    [c |-> c, k |-> k, room |-> room, returned |-> FALSE, dropped |-> FALSE,
     misuse |-> FALSE, closes |-> 0, wrote |-> <<>>, parsed |-> <<>>,
     delivered |-> <<>>]

\* Connection::close_remote
CloseRemote(x) ==
    IF x.c.rclosed THEN x
    ELSE [x EXCEPT !.c.rclosed = TRUE, !.closes = @ + 1]

\* A read, write or flush on self.remote: it is a misuse once close has run.
UseRemote(x) == [x EXCEPT !.misuse = @ \/ x.c.rclosed]

\* TLS takes the record bytes b.
AcceptRecord(x, b) ==
    IF b = <<>> THEN x
    ELSE [x EXCEPT !.k = @ - Len(b),
                   !.wrote = @ \o b,
                   !.c.corrupt = @ \/ ~IsPrefix(b, x.c.unsent),
                   !.c.unsent = IF IsPrefix(b, @) THEN DropN(@, Len(b)) ELSE <<>>,
                   !.c.rec_early = @ \/ x.c.pre_sent < Len(Preamble)]

\* Connection::flush_remote; o.flush is what TlsConn::flush returns.
FlushRemote(x, o) ==
    IF o.flush = "err" THEN CloseRemote(UseRemote(x)) ELSE UseRemote(x)

\* utils::send_all(&mut remote, &mut rbuffer): writes until the buffer is
\* empty ("all"), TLS blocks ("part": the buffer keeps what was not taken)
\* or TLS fails ("err").  o.stop is what a write returns once TLS has
\* stopped accepting: WouldBlock ("block"), Ok(0) ("zero") or an error.
SendAll(x, o) ==
    LET n == Min(x.k, Len(x.c.rbuffer))
        y == AcceptRecord(UseRemote(x), Take(x.c.rbuffer, n))
        z == [y EXCEPT !.c.rbuffer = DropN(@, n)]
    IN  [x |-> z,
         result |-> IF n = Len(x.c.rbuffer) THEN "all"
                    ELSE IF o.stop = "block" THEN "part" ELSE "err"]

\* The test of udp1.rs:187 that decides whether body follows data in rbuffer.
BodyFollows(data, header) == Len(data) < Len(header)

\* The write loop of local_to_remote and what follows it (udp1.rs:154-191),
\* entered with rbuffer empty.
WriteLoop(x, header, body, o) ==
    LET all == IF header = <<>> THEN <<>> ELSE header \o body
        n == Min(x.k, Len(all))
        y == IF all = <<>> THEN x ELSE AcceptRecord(UseRemote(x), Take(all, n))
        data == IF n < Len(header) THEN DropN(header, n)
                                   ELSE DropN(body, n - Len(header))
    IN  IF n < Len(all) /\ o.stop # "block" THEN CloseRemote(y)
        ELSE IF n < Len(all)
        THEN FlushRemote([y EXCEPT !.c.rbuffer =
                             @ \o data \o (IF BodyFollows(data, header)
                                           THEN body ELSE <<>>)], o)
        ELSE FlushRemote(y, o)

\* local_to_remote after send_all has returned s (udp1.rs:139-152).
AfterSendAll(s, header, body, o) ==
    IF s.result = "part" THEN FlushRemote(s.x, o)
    ELSE IF s.result = "err" THEN CloseRemote(s.x)
    ELSE WriteLoop(s.x, header, body, o)

\* Connection::local_to_remote
LocalToRemote(x, header, body, o) ==
    IF x.c.rbuffer # <<>> THEN AfterSendAll(SendAll(x, o), header, body, o)
    ELSE WriteLoop(x, header, body, o)

\* The datagram is not discarded: its record joins the expected stream.
Accepted(x, header, body) ==
    [x EXCEPT !.c.unsent = IF x.c.corrupt THEN <<>> ELSE @ \o header \o body]

ConnDoLocalQueues(x, header, body, o) ==
    IF ~x.c.established
    THEN [Accepted(x, header, body) EXCEPT !.c.rbuffer = @ \o header \o body]
    ELSE LocalToRemote(Accepted(x, header, body), header, body, o)

\* Connection::do_local
ConnDoLocal(x, header, body, o) ==
    IF x.c.rbuffer # <<>> THEN [x EXCEPT !.dropped = TRUE]
    ELSE IF ~x.c.established
    THEN [Accepted(x, header, body) EXCEPT !.c.rbuffer = @ \o header \o body]
    ELSE LocalToRemote(Accepted(x, header, body), header, body, o)

\* The inner loop of remote_to_local (udp1.rs:235-264) over the unparsed
\* bytes buf.  UdpSocketRef::write hands the payload to the local socket,
\* whose send queue takes it or is Exhausted; the result is ignored.
Datagram(x, payload) ==
    [from |-> x.c.local, to |-> x.c.endpoint, payload |-> payload]

DeliverTwice(x, p) ==
    [x EXCEPT !.parsed = Append(@, [addr |-> p.addr, payload |-> p.payload,
                                    accepted |-> x.room > 0]),
              !.delivered = IF x.room > 0
                            THEN @ \o <<Datagram(x, p.payload),
                                        Datagram(x, p.payload)>>
                            ELSE @,
              !.room = IF x.room > 0 THEN @ - 1 ELSE @]

\* `let _ = socket.write(payload)` (udp1.rs:254 with udp1.rs:52-60) for the
\* packet p that parse_endpoint returned: the socket is the one the flow was
\* created on, and the address p carries is not looked at.
Deliver(x, p) ==
    [x EXCEPT !.parsed = Append(@, [addr |-> p.addr, payload |-> p.payload,
                                    accepted |-> x.room > 0]),
              !.delivered = IF x.room > 0 THEN Append(@, Datagram(x, p.payload))
                                          ELSE @,
              !.room = IF x.room > 0 THEN @ - 1 ELSE @]

\* Continued (udp1.rs:238-251): the unparsed bytes buf are moved to the front
\* of lbuffer and become its whole content.
DropTail(x, buf) == [x EXCEPT !.c.lbuffer = <<>>]
KeepTail(x, buf) == [x EXCEPT !.c.lbuffer = buf]

RECURSIVE ParseLoop(_, _)
AfterParseEndpoint(x, buf, p) ==
    IF p.kind = "continued" THEN KeepTail(x, buf)
    ELSE IF p.kind = "invalid" THEN [CloseRemote(x) EXCEPT !.returned = TRUE]
    ELSE ParseLoop(Deliver(x, p), p.rest)

ParseLoop(x, buf) == AfterParseEndpoint(x, buf, ParseEndpoint(buf))

\* The outer loop of remote_to_local (udp1.rs:200-265).  chunks are what the
\* successive reads return; after them a read returns WouldBlock
\* (end = "block"), Ok(0) ("eof") or an error ("err").  lbuffer never grows
\* beyond the capacity it was created with (udp1.rs:357): no statement of
\* the loop reserves or pushes.  Once it is full the slice handed to read
\* (udp1.rs:207) is empty, and a read into an empty slice returns Ok(0).
RECURSIVE ReadLoop(_, _, _)
AfterParse(z, chunks, end) ==
    IF z.returned THEN z ELSE ReadLoop(z, chunks, end)

ReadChunk(u, n, chunks, end) ==
    AfterParse(ParseLoop([u EXCEPT !.c.lbuffer = @ \o Take(Head(chunks), n),
                                   !.c.rx = DropN(@, n)],
                         u.c.lbuffer \o Take(Head(chunks), n)),
               (IF n = Len(Head(chunks)) THEN <<>>
                ELSE <<DropN(Head(chunks), n)>>) \o Tail(chunks),
               end)

ReadLoop(x, chunks, end) ==
    IF LBUFFER_CAP = Len(x.c.lbuffer) THEN CloseRemote(UseRemote(x))
    ELSE IF chunks = <<>>
    THEN IF end = "block" THEN UseRemote(x) ELSE CloseRemote(UseRemote(x))
    ELSE ReadChunk(UseRemote(x),
                   Min(LBUFFER_CAP - Len(x.c.lbuffer), Len(Head(chunks))),
                   chunks, end)

\* The reads of one readable event: the first inb.avail bytes in flight,
\* split after inb.cut bytes.
Chunks(bytes, cut) ==
    LET NonEmpty(s) == s # <<>>
    IN  SelectSeq(<<Take(bytes, cut), DropN(bytes, cut)>>, NonEmpty)

\* Connection::remote_to_local.  A read on a closed TlsConn fails.
RemoteToLocal(x, inb) ==
    IF x.c.rclosed THEN UseRemote(x)
    ELSE ReadLoop(x, Chunks(Take(x.c.rx, inb.avail), inb.cut), inb.end)

\* The writable half of Connection::do_remote (udp1.rs:94-112).  The write
\* of the preamble is Ok when TLS takes some bytes of it, or none (Ok(0)).
WritablePart(x, o) ==
    LET n == Min(x.k, Len(Preamble)) IN
    IF x.c.established THEN LocalToRemote(x, <<>>, <<>>, o)
    ELSE IF n > 0 \/ o.stop = "zero"
    THEN LocalToRemote([UseRemote(x) EXCEPT !.c.established = TRUE,
                                            !.c.pre_sent = n,
                                            !.k = @ - n,
                                            !.wrote = @ \o Take(Preamble, n)],
                       <<>>, <<>>, o)
    ELSE [CloseRemote(UseRemote(x)) EXCEPT !.returned = TRUE]

\* The readable half of Connection::do_remote (udp1.rs:113-115).
ReadablePart(w, ev, inb) ==
    IF ev.readable /\ ~w.returned THEN RemoteToLocal(w, inb) ELSE w

\* Connection::do_remote
ConnDoRemote(x, ev, o, inb) ==
    ReadablePart(IF ev.writable THEN WritablePart(x, o) ELSE x, ev, inb)

(***************************************************************************)
(* UdpServer.  conns is the heap of Connection objects; the two maps hold  *)
(* references (object ids) to them, and an object lives as long as a map   *)
(* refers to it.  A Token is represented by the index it is made from.     *)
(***************************************************************************)
\* next_token: the token handed out and the NEXT_INDEX left behind.
NextToken ==
    [token |-> next_index,
     next |-> IF next_index + 1 >= MAX_INDEX THEN MIN_INDEX ELSE next_index + 1]

Range(f) == {f[a] : a \in DOMAIN f}
Without(f, K) == [a \in DOMAIN f \ K |-> f[a]]
With(f, a, v) == [b \in DOMAIN f \cup {a} |-> IF b = a THEN v ELSE f[b]]
FreshId == CHOOSE i \in 1..(Cardinality(DOMAIN conns) + 1) : i \notin DOMAIN conns

\* Dropping the Arcs no map holds any more.
Collect(heap, a2c, t2c) ==
    [i \in DOMAIN heap \cap (Range(a2c) \cup Range(t2c)) |-> heap[i]]

\* What an operation of the UdpServer did.
UdpOut(op, token, src, x, removed) ==
    [op |-> op, token |-> token, src |-> src, dropped |-> x.dropped,
     misuse |-> x.misuse, closes |-> x.closes, wrote |-> Len(x.wrote),
     parsed |-> x.parsed, delivered |-> x.delivered, removed |-> removed]

NoConnection == NewConnection(0, <<>>, <<>>)

UdpInit ==
    /\ conns = << >>
    /\ addr2conns = << >>
    /\ token2conns = << >>
    /\ sockets = << >>
    /\ next_index = MIN_INDEX
    /\ udp_panicked = FALSE
    /\ uout = UdpOut("new", 0, <<>>, Run(NoConnection, 0, 0), {})

\* UdpServer::new_socket
NewSocket(endpoint) ==
    /\ ~udp_panicked
    /\ sockets' = IF endpoint \in DOMAIN sockets THEN sockets
                  ELSE With(sockets, endpoint, now)
    /\ uout' = UdpOut("new_socket", 0, <<>>, Run(NoConnection, 0, 0), {})
    /\ UNCHANGED <<conns, addr2conns, token2conns, next_index, udp_panicked, now>>
    /\ UNCHANGED other_than_udp

\* UdpServer::remove
Remove(m, c) ==
    [t2c |-> Without(m.t2c, {c.token}), a2c |-> Without(m.a2c, {c.endpoint})]

\* UdpServer::do_local for one wakeup of the socket bound to dst that holds
\* one datagram, data from src.  pool_ok: pool.get returns a connection;
\* when it returns None the unwrap of udp1.rs:349 panics.
UdpDoLocal(dst, src, data, o, pool_ok) ==
    /\ ~udp_panicked
    /\ IF dst \notin DOMAIN sockets
       THEN /\ udp_panicked' = TRUE
            /\ uout' = UdpOut("panic", 0, src, Run(NoConnection, 0, 0), {})
            /\ UNCHANGED <<conns, addr2conns, token2conns, sockets, next_index>>
       ELSE IF src \notin DOMAIN addr2conns /\ ~pool_ok
       THEN /\ udp_panicked' = TRUE
            /\ sockets' = [sockets EXCEPT ![dst] = now]
            /\ uout' = UdpOut("pool_failed", 0, src, Run(NoConnection, 0, 0), {})
            /\ UNCHANGED <<conns, addr2conns, token2conns, next_index>>
       ELSE LET new == src \notin DOMAIN addr2conns
                id == IF new THEN FreshId ELSE addr2conns[src]
                c == IF new THEN NewConnection(NextToken.token, dst, src)
                            ELSE conns[id]
                a2c == With(addr2conns, src, id)
                t2c == IF c.token \in DOMAIN token2conns THEN token2conns
                       ELSE With(token2conns, c.token, id)
            IN  \E x \in {ConnDoLocal(Run([c EXCEPT !.seen = now,
                                                   !.peers = @ \cup {dst}],
                                          o.k, 0),
                                      GenerateEndpoint(dst, Len(data)), data, o)} :
                \E m \in {IF x.c.rclosed
                          THEN Remove([t2c |-> t2c, a2c |-> a2c], x.c)
                          ELSE [t2c |-> t2c, a2c |-> a2c]} :
                /\ sockets' = [sockets EXCEPT ![dst] = now]
                /\ next_index' = IF new THEN NextToken.next ELSE next_index
                /\ addr2conns' = m.a2c
                /\ token2conns' = m.t2c
                /\ conns' = Collect(With(conns, id, x.c), m.a2c, m.t2c)
                /\ uout' = UdpOut("do_local", c.token, src, x, {})
                /\ UNCHANGED udp_panicked
    /\ UNCHANGED now
    /\ UNCHANGED other_than_udp

\* UdpServer::do_remote for one event on token.
UdpDoRemote(token, ev, o, inb) ==
    /\ ~udp_panicked
    /\ IF token \notin DOMAIN token2conns
       THEN /\ uout' = UdpOut("do_remote", token, <<>>, Run(NoConnection, 0, 0), {})
            /\ UNCHANGED <<conns, addr2conns, token2conns>>
       ELSE LET id == token2conns[token]
                c == conns[id]
            IN  \E r \in {ConnDoRemote(Run(c, o.k, inb.room), ev, o, inb)} :
                \E x \in {IF r.parsed = <<>> THEN r
                          ELSE [r EXCEPT !.c.seen = now]} :
                \E m \in {IF x.c.rclosed
                          THEN Remove([t2c |-> token2conns, a2c |-> addr2conns],
                                      x.c)
                          ELSE [t2c |-> token2conns, a2c |-> addr2conns]} :
                /\ addr2conns' = m.a2c
                /\ token2conns' = m.t2c
                /\ conns' = Collect([conns EXCEPT ![id] = x.c], m.a2c, m.t2c)
                /\ uout' = UdpOut("do_remote", token, c.endpoint, x, {})
    /\ UNCHANGED <<sockets, next_index, udp_panicked, now>>
    /\ UNCHANGED other_than_udp

\* UdpServer::check_timeout(now, sockets)
Expired == {e \in DOMAIN sockets : now - sockets[e] > IDLE_SECS}
CheckTimeout ==
    LET found == {addr2conns[e] : e \in Expired \cap DOMAIN addr2conns}
        t2c == Without(token2conns, {conns[i].token : i \in found})
        a2c == Without(addr2conns, {conns[i].endpoint : i \in found})
    IN  /\ ~udp_panicked
        /\ sockets' = Without(sockets, {conns[i].endpoint : i \in found})
        /\ token2conns' = t2c
        /\ addr2conns' = a2c
        /\ conns' = Collect(conns, a2c, t2c)
        /\ uout' = UdpOut("check_timeout", 0, <<>>, Run(NoConnection, 0, 0),
                          {[local |-> conns[i].local,
                            endpoint |-> conns[i].endpoint,
                            seen |-> conns[i].seen] : i \in found})
        /\ UNCHANGED <<next_index, udp_panicked, now>>
        /\ UNCHANGED other_than_udp

\* The relay sends bytes on the TLS connection of the flow from src.
RelaySends(src, bytes) ==
    /\ ~udp_panicked
    /\ src \in DOMAIN addr2conns
    /\ Len(conns[addr2conns[src]].rx) + Len(bytes) <= MaxInFlight
    /\ conns' = [conns EXCEPT ![addr2conns[src]].rx = @ \o bytes]
    /\ uout' = UdpOut("relay", 0, src, Run(NoConnection, 0, 0), {})
    /\ UNCHANGED <<addr2conns, token2conns, sockets, next_index, udp_panicked,
                   now>>
    /\ UNCHANGED other_than_udp

FnIdle == arg = <<>> /\ res = <<>>

(***************************************************************************)
(* The mobile bridge (mobile/src-tauri/src/platform/android.rs).  android  *)
(* holds CONTEXT (ctx), every Arc<AtomicBool> made for `running` (flags,   *)
(* by identity), the threads on_vpn_start spawned (workers), the host's    *)
(* descriptors (fds), every event emit_event was called with (events),     *)
(* and for the last call through the bridge what it did (last) and the     *)
(* calls of emit_event it made, in order (emitted).                        *)
(***************************************************************************)
STARTING == 1
ERROR == 2
STOPPED == 3
NO_FD == 0 - 1
HostFds == {7, 8}
OutboundCalls ==
    {"start_vpn", "stop_vpn", "check_self_permission", "request_permission",
     "should_show_permission_rationale", "update_notification", "save_data",
     "load_data"}

NoContext == [present |-> FALSE, fd |-> NO_FD, running |-> 0]
Called(op, found, result) ==
    [op |-> op, found |-> found, result |-> result, published |-> <<>>,
     spawned |-> FALSE]

AndroidInit ==
    android = [ctx |-> NoContext, flags |-> <<>>, workers |-> <<>>,
               fds |-> [fd \in HostFds |-> "open"], events |-> {},
               emitted |-> <<>>, last |-> Called("new", FALSE, "ok"),
               caller |-> 0]

\* get_context / get_mut_context: `context.as_ref().ok_or(NoPlatformContext)`
FindContextAnyway(a) == TRUE
FindContext(a) == a.ctx.present

\* emit_event(name, value), called by `by`: a bridge function, <<"worker", w>>
\* for the closure of worker w's thread, <<"engine", w>> for its process_vpn.
Emit(a, name, value, by) ==
    [a EXCEPT !.events = @ \cup {[name |-> name, value |-> value, by |-> by]},
              !.emitted = Append(@, [name |-> name, value |-> value, by |-> by])]

\* What the call op, made in state `before`, leaves in last when it ends well
\* in state a.
Publishing(a, op, before) ==
    [a EXCEPT !.last = [Called(op, before.ctx.present, "ok") EXCEPT
                            !.published = a.emitted,
                            !.spawned = Len(a.workers) > Len(before.workers)],
              !.emitted = <<>>]

\* init_rust: get_java_vm may fail; otherwise CONTEXT is replaced by a fresh
\* context.
InitRust(jvm_ok) ==
    /\ Len(android.flags) < MaxArcs
    /\ android' =
          IF jvm_ok
          THEN [android EXCEPT
                    !.flags = Append(@, FALSE),
                    !.ctx = [present |-> TRUE, fd |-> NO_FD,
                             running |-> Len(android.flags) + 1],
                    !.last = Called("init_rust", android.ctx.present, "ok")]
          ELSE [android EXCEPT
                    !.last = Called("init_rust", android.ctx.present, "Jni")]
    /\ UNCHANGED <<now, profiler_vars, udp_vars, fn_vars, cond_lock, device, shell>>

\* onPermissionResult(granted); the event's boolean is written 1 or 0.
OnPermissionResult(granted) ==
    /\ android' = Publishing(Emit(android, "on_permission_result",
                                  IF granted THEN 1 ELSE 0,
                                  <<"on_permission_result", 0>>),
                             "on_permission_result", android)
    /\ UNCHANGED <<now, profiler_vars, udp_vars, fn_vars, cond_lock, device, shell>>

\* on_vpn_start's lines 126-139 on the context found: the descriptor and a
\* new `running` are stored, and a thread is spawned that runs
\* process_vpn(fd, running) on a Session adopting fd.
StartWorker(a, fd) ==
    [a EXCEPT !.flags = Append(@, TRUE),
              !.ctx = [present |-> TRUE, fd |-> fd, running |-> Len(a.flags) + 1],
              !.workers = Append(@, [fd |-> fd, running |-> Len(a.flags) + 1,
                                     state |-> "running", session |-> "open",
                                     read |-> "none", got |-> "none"])]

StartSilent(a) == a
StartPublishes(a) ==
    Emit(a, "on_status_changed", STARTING, <<"on_vpn_start", 0>>)

\* on_vpn_start(fd)
OnVpnStart(fd) ==
    /\ Len(android.flags) < MaxArcs
    /\ android' =
          IF FindContext(android)
          THEN Publishing(StartPublishes(StartWorker(android, fd)),
                          "on_vpn_start", android)
          ELSE [android EXCEPT
                    !.last = Called("on_vpn_start", android.ctx.present,
                                    "NoPlatformContext")]
    /\ UNCHANGED <<now, profiler_vars, udp_vars, fn_vars, cond_lock, device, shell>>

\* on_vpn_start taken apart at the point where the worker's thread can run
\* before the caller goes on: lines 125-139 (the context is updated and the
\* thread spawned), and line 140 (status 1 is emitted).  android.caller is
\* the worker whose on_vpn_start has not reached line 140 yet (0: none).
OnVpnStartSpawns(fd) ==
    /\ android.caller = 0
    /\ Len(android.workers) < MaxStarts
    /\ android' =
          IF FindContext(android)
          THEN [StartWorker(android, fd) EXCEPT
                    !.caller = Len(android.workers) + 1,
                    !.last = Called("on_vpn_start", TRUE, "pending")]
          ELSE [android EXCEPT
                    !.last = Called("on_vpn_start", android.ctx.present,
                                    "NoPlatformContext")]
    /\ UNCHANGED <<now, profiler_vars, udp_vars, fn_vars, cond_lock, device, shell>>

OnVpnStartPublishes ==
    /\ android.caller # 0
    /\ android' = [Publishing(StartPublishes(android), "on_vpn_start",
                              [android EXCEPT
                                   !.workers = SubSeq(@, 1, Len(@) - 1)])
                       EXCEPT !.caller = 0]
    /\ UNCHANGED <<now, profiler_vars, udp_vars, fn_vars, cond_lock, device, shell>>

\* on_vpn_stop's lines 155-156 on the context found
StopWorker(a) ==
    [a EXCEPT !.ctx.fd = NO_FD, !.flags[a.ctx.running] = FALSE]

\* on_vpn_stop
OnVpnStop ==
    /\ android' =
          IF FindContext(android)
          THEN Publishing(Emit(StopWorker(android), "on_status_changed", STOPPED,
                               <<"on_vpn_stop", 0>>),
                          "on_vpn_stop", android)
          ELSE [android EXCEPT
                    !.last = Called("on_vpn_stop", android.ctx.present,
                                    "NoPlatformContext")]
    /\ UNCHANGED <<now, profiler_vars, udp_vars, fn_vars, cond_lock, device, shell>>

\* start_vpn, stop_vpn and the other calls to the host: get_context, then
\* attach_current_thread and the call of the host's method, which may fail.
Outbound(f, jni_ok) ==
    /\ f \in OutboundCalls
    /\ android' =
          [android EXCEPT
               !.last = IF ~FindContext(android)
                        THEN Called(f, android.ctx.present, "NoPlatformContext")
                        ELSE Called(f, android.ctx.present,
                                    IF jni_ok THEN "ok" ELSE "Jni")]
    /\ UNCHANGED <<now, profiler_vars, udp_vars, fn_vars, cond_lock, device, shell>>

\* Session::try_receive, r being what file.read returns: "packet" (Ok(n),
\* n > 0), "eof" (Ok(0)), "wouldblock" or "error".
TryReceiveEofAsNone(r) ==
    IF r = "packet" THEN "Some" ELSE IF r = "error" THEN "Err" ELSE "None"
TryReceive(r) ==
    IF r = "eof" THEN "Err"
    ELSE IF r = "packet" THEN "Some"
    ELSE IF r = "wouldblock" THEN "None"
    ELSE "Err"

\* The Session goes away: its File is inside a ManuallyDrop (line 305), so
\* File's destructor does not run and the descriptor is not closed.
DropFile(fds, fd) == [fds EXCEPT ![fd] = "closed"]
DropSession(fds, fd) == fds

\* The thread's closure once process_vpn has returned ret (lines 131-138)
WorkerReturns(a, w, ret) ==
    LET b == [a EXCEPT !.workers[w].state = IF ret = "err" THEN "failed"
                                            ELSE "exited",
                       !.workers[w].session = "dropped",
                       !.fds = DropSession(@, a.workers[w].fd)]
    IN  [(IF ret = "err"
          THEN Emit(b, "on_status_changed", ERROR, <<"worker", w>>)
          ELSE b) EXCEPT !.emitted = <<>>]

\* The engine's run loop (process_vpn, not in src/): a failed try_receive is
\* fatal; the engine signals stopped and leaves the loop.
EngineStops(a, w) == Emit(a, "on_status_changed", STOPPED, <<"engine", w>>)

\* One turn of worker w's run loop: it calls try_receive on its Session.
WorkerReceives(w, r, ret) ==
    /\ w \in DOMAIN android.workers
    /\ android.workers[w].state = "running"
    /\ android.fds[android.workers[w].fd] = "open"
    /\ LET a == [android EXCEPT !.workers[w].read = r,
                                !.workers[w].got = TryReceive(r)]
       IN  android' = IF TryReceive(r) = "Err"
                      THEN WorkerReturns(EngineStops(a, w), w, ret)
                      ELSE a
    /\ UNCHANGED <<now, profiler_vars, udp_vars, fn_vars, cond_lock, device, shell>>

\* Worker w finds its `running` false and leaves the run loop.
WorkerStops(w) ==
    /\ w \in DOMAIN android.workers
    /\ android.workers[w].state = "running"
    /\ ~android.flags[android.workers[w].running]
    /\ android' = WorkerReturns(android, w, "ok")
    /\ UNCHANGED <<now, profiler_vars, udp_vars, fn_vars, cond_lock, device, shell>>

\* process_vpn of worker w returns an error other than a failed read.
WorkerFails(w) ==
    /\ w \in DOMAIN android.workers
    /\ android.workers[w].state = "running"
    /\ android' = WorkerReturns(android, w, "err")
    /\ UNCHANGED <<now, profiler_vars, udp_vars, fn_vars, cond_lock, device, shell>>

(***************************************************************************)
(* The desktop engine's driving loop (awintun/mod.rs, async_run).  device  *)
(* holds where async_run is (pc), the TunDevice's blacklist (black) and    *)
(* the frames the host sent that it has not consumed (frames), whether the *)
(* device was ever polled, and the flow workers spawned so far, each with  *)
(* its protocol and its destination (workers), and the frames poll         *)
(* consumed without making a flow of them (passed).                        *)
(***************************************************************************)
\* OPTIONS.back_addr, the relay
BACK_ADDR == Endpoint(<<203, 0, 113, 5>>, 443)

DeviceInit ==
    device = [pc |-> "start", black |-> {}, frames |-> {}, polled |-> FALSE,
              workers |-> {}, passed |-> {}]

\* TunDevice::new(..) followed by device.add_black_ip(server_addr.ip())
\* (lines 90-91)
NewDeviceBare(d, server_addr) == [d EXCEPT !.pc = "looping"]
NewDevice(d, server_addr) ==
    [d EXCEPT !.pc = "looping", !.black = @ \cup {server_addr.addr}]

\* async_run as far as its loop (lines 46-96): loading the driver, creating
\* the adapter, the routes or the server name may fail, and async_run then
\* returns the error.
AsyncRunStarts(ok) ==
    /\ device.pc = "start"
    /\ device' = IF ok THEN NewDevice(device, BACK_ADDR)
                       ELSE [device EXCEPT !.pc = "failed"]
    /\ UNCHANGED <<now, profiler_vars, udp_vars, fn_vars, cond_lock, android, shell>>

\* The host sends the first frame of a flow (a TCP SYN or a UDP datagram) to
\* dst through the TUN.
HostSends(proto, dst) ==
    /\ device.pc # "failed"
    /\ device' = [device EXCEPT !.frames = @ \cup {[proto |-> proto, dst |-> dst]}]
    /\ UNCHANGED <<now, profiler_vars, udp_vars, fn_vars, cond_lock, android, shell>>

\* TunDevice::poll's capture rule: a frame becomes a flow unless its
\* destination address is blacklisted.
Captured(d) == {f \in d.frames : f.dst.addr \notin d.black}

\* One turn of async_run's loop (lines 98-126): poll, then one start_tcp or
\* start_udp task spawned per flow returned.
PollDevice ==
    /\ device.pc = "looping"
    /\ device' = [device EXCEPT !.frames = {}, !.polled = TRUE,
                                !.workers = @ \cup Captured(device),
                                !.passed = @ \cup (device.frames \ Captured(device))]
    /\ UNCHANGED <<now, profiler_vars, udp_vars, fn_vars, cond_lock, android, shell>>

\* The components a specification does not drive, as they are at start.
(***************************************************************************)
(* The desktop shell (trojan-client/src-tauri/src/main.rs) with the DNS    *)
(* helper disabled (config.enable_dns = false).  shell holds TrojanState's *)
(* wintun handle (0: None, else the child's id), the state of its Mutex,   *)
(* the tasks start has spawned (pc, child), the engine children (kids),    *)
(* the last state-update the window received (ui), and one note of the     *)
(* history: whether state-update false was ever emitted while a child was  *)
(* alive (stopped_alive).  Commands run on the main thread, one at a time; *)
(* the tasks run on the async runtime, between and during commands.        *)
(***************************************************************************)
NoChild == 0

ShellInit ==
    shell = [wintun |-> NoChild, mutex |-> "free", tasks |-> <<>>,
             kids |-> <<>>, ui |-> FALSE, stopped_alive |-> FALSE]

Alive(s) == {c \in DOMAIN s.kids : s.kids[c] = "alive"}

\* emit_state_update_event up to its lock: window.emit (line 255).
EmitStateUpdate(s, running) ==
    [s EXCEPT !.ui = running,
              !.stopped_alive = @ \/ (~running /\ Alive(s) # {})]

\* state.wintun.is_some() (line 90)
IsSome(s) == s.wintun # NoChild

\* The command start (lines 83-94 and 250-252); saved: save_config succeeds.
\* With the Mutex poisoned the lock of line 258 panics after the emit.
Start(saved) ==
    /\ shell.mutex # "held"
    /\ Len(shell.tasks) < MaxChildren
    /\ shell' = IF ~saved THEN shell
                ELSE IF shell.mutex = "poisoned" \/ IsSome(shell)
                THEN EmitStateUpdate(shell, TRUE)
                ELSE [EmitStateUpdate(shell, TRUE) EXCEPT
                          !.tasks = Append(@, [pc |-> "spawning", child |-> NoChild])]
    /\ UNCHANGED <<now, profiler_vars, udp_vars, fn_vars, cond_lock, android,
                   device>>

\* The task of start from its first lock to the record of the child (lines
\* 95-147); ok: Command::spawn succeeds.
TaskSpawns(t, ok) ==
    /\ t \in DOMAIN shell.tasks
    /\ shell.tasks[t].pc = "spawning"
    /\ shell.mutex # "held"
    /\ shell' =
          IF shell.mutex = "poisoned"
          THEN [shell EXCEPT !.tasks[t].pc = "done"]
          ELSE IF ok
          THEN [shell EXCEPT !.kids = Append(@, "alive"),
                             !.wintun = Len(shell.kids) + 1,
                             !.tasks[t] = [pc |-> "watching",
                                           child |-> Len(shell.kids) + 1]]
          ELSE [EmitStateUpdate(shell, FALSE) EXCEPT !.tasks[t].pc = "done"]
    /\ UNCHANGED <<now, profiler_vars, udp_vars, fn_vars, cond_lock, android,
                   device>>

\* An engine child ends by itself.
ChildExits(c) ==
    /\ c \in Alive(shell)
    /\ shell' = [shell EXCEPT !.kids[c] = "ended"]
    /\ UNCHANGED <<now, profiler_vars, udp_vars, fn_vars, cond_lock, android,
                   device>>

\* The task receives Terminated from its child and takes the handle that
\* TrojanState holds (lines 193-245, state.wintun.take() at line 221).
TaskNotices(t) ==
    /\ t \in DOMAIN shell.tasks
    /\ shell.tasks[t].pc = "watching"
    /\ shell.kids[shell.tasks[t].child] = "ended"
    /\ shell.mutex # "held"
    /\ shell' = IF shell.mutex = "poisoned"
                THEN [shell EXCEPT !.tasks[t].pc = "done"]
                ELSE [shell EXCEPT !.wintun = NoChild,
                                   !.tasks[t].pc = "reporting"]
    /\ UNCHANGED <<now, profiler_vars, udp_vars, fn_vars, cond_lock, android,
                   device>>

\* The task leaves its loop and emits state-update false (lines 246-249).
TaskReports(t) ==
    /\ t \in DOMAIN shell.tasks
    /\ shell.tasks[t].pc = "reporting"
    /\ shell.mutex # "held"
    /\ shell' = [EmitStateUpdate(shell, FALSE) EXCEPT !.tasks[t].pc = "done"]
    /\ UNCHANGED <<now, profiler_vars, udp_vars, fn_vars, cond_lock, android,
                   device>>

\* The command stop (lines 274-283).  Without a handle it emits false and
\* then locks a Mutex its own thread holds (the guard of line 276 lives to
\* the end of the function, line 258 locks again): the call never returns,
\* by a deadlock of the main thread (held) or by a panic that poisons the
\* Mutex (poisoned).
Stop ==
    /\ shell.mutex # "held"
    /\ IF shell.mutex = "poisoned" THEN shell' = shell
       ELSE IF IsSome(shell)
       THEN shell' = [shell EXCEPT !.wintun = NoChild,
                                   !.kids[shell.wintun] = "ended"]
       ELSE \E m \in {"held", "poisoned"} :
                shell' = [EmitStateUpdate(shell, FALSE) EXCEPT !.mutex = m]
    /\ UNCHANGED <<now, profiler_vars, udp_vars, fn_vars, cond_lock, android,
                   device>>

RestInit == LockInit /\ AndroidInit /\ DeviceInit /\ ShellInit

(***************************************************************************)
(* SpecProfiler: the profiler with two destinations, checks 60 s and       *)
(* 3600 s apart, direct probes of 40 ms that lose nothing, and a relay     *)
(* that reports 20 ms and no loss.                                         *)
(***************************************************************************)
\* What the probe loop ends with: a direct probe of 40 ms that loses nothing.
DirectProbe == ProbeLoop(Probe(0, 0, 40))

ProfilerNext ==
    \/ Initialize
    \/ \E t \in {60, 3600} : Tick(t)
    \/ \E ip \in {IP4A, IP4B} : Check(ip)
    \/ RequestSkipped
    \/ RequestRoutineStops
    \/ \E i \in 1..Len(check_queue) : DoCheck(i, DirectProbe)
    \/ \E ord \in Orders(DOMAIN set) : Update(ord)
    \/ \E ip \in {IP4A, IP4B} : RelayReplies(ip, 20, 0)
    \/ \E w, ok \in BOOLEAN : Ready(Len(wire_rx), w, ok)

InitProfiler ==
    ProfilerInit /\ overflow_checks = FALSE /\ UdpInit /\ RestInit /\ FnIdle

SpecProfiler == InitProfiler /\ [][ProfilerNext]_vars

\* C6: at most one bypass decision is sent per completed measurement cycle:
\* no update sends a decision for a row it has already sent one for unless a
\* new measurement of that row has arrived in between.
C6_OneDecisionPerCycle == out.again = {}

\* C7: a check(X) that comes less than 3600 s after the check(X) that
\* registered the row sends nothing to the relay, enqueues no probe and
\* leaves the row as it is.
C7_SecondCheckIsSilent ==
    [][\A ip \in DOMAIN set :
          (now - set[ip].last_time < DEDUP_SECS /\ Check(ip))
          => /\ out'.tx = <<>>
             /\ out'.probe = <<>>
             /\ send_buffer' = send_buffer
             /\ check_queue' = check_queue
             /\ set' = set]_vars

C7_Witness ==
    /\ out.op = "check"
    /\ out.skipped
    /\ out.ip \in DOMAIN set
    /\ now - set[out.ip].last_time = 60

(***************************************************************************)
(* SpecDecide: update over complete tables.  The direct latencies stay     *)
(* below the probe's timeout of 999 ms; the relay's figures are any u16    *)
(* and u8 short of the sentinels; both builds (overflow checked or not).   *)
(***************************************************************************)
DecideConditions == {[ping |-> 200, lost |-> 3], [ping |-> 100, lost |-> 1]}
LocalResults == {<<40, 0>>, <<240, 0>>, <<40, 3>>, <<240, 3>>, <<0, 100>>}
RemoteResults == {<<20, 0>>, <<40, 0>>, <<65534, 254>>}
CompleteRow(l, r) ==
    [last_time |-> 0, local_lost |-> l[2], local_ping |-> l[1],
     remote_lost |-> r[2], remote_ping |-> r[1],
     direct_recorded |-> TRUE, remote_recorded |-> TRUE]

InitDecide ==
    /\ set \in [{IP4A, IP4B} ->
                  {CompleteRow(l, r) : l \in LocalResults, r \in RemoteResults}]
    /\ cond \in DecideConditions
    /\ overflow_checks \in BOOLEAN
    /\ now = 0
    /\ check_queue = <<>>
    /\ resp_queue = <<>>
    /\ conn = "open"
    /\ send_buffer = <<>>
    /\ recv_buffer = <<>>
    /\ wire_rx = <<>>
    /\ started = TRUE
    /\ req_alive = TRUE
    /\ panicked = FALSE
    /\ out = NoOutput("new", <<>>)
    /\ decided = {}
    /\ UdpInit /\ RestInit
    /\ FnIdle

DecideNext ==
    \/ \E ord \in Orders(DOMAIN set) : Update(ord)
    \/ CheckServer(DirectProbe)

SpecDecide == InitDecide /\ [][DecideNext]_vars

\* The proxy loss of the decision rule, in exact arithmetic.
ExactProxyLoss(cond_lost, remote_lost) ==
    100 - ((100 - cond_lost) * (100 - remote_lost)) \div 100

\* C1: update sends bypass = true for a complete row exactly when
\* local_ping < cond.ping + remote_ping, local_lost < proxy_loss and
\* local_ping > remote_ping, all three strict, cond being the snapshot
\* update took.
C1_BypassRule ==
    out.op = "update" =>
        \A i \in DOMAIN out.ipset :
            LET pr == set[out.ipset[i].ip] IN
            out.ipset[i].bypass <=>
                /\ pr.local_ping < out.cond.ping + pr.remote_ping
                /\ pr.local_lost < ExactProxyLoss(out.cond.lost, pr.remote_lost)
                /\ pr.local_ping > pr.remote_ping

C1_Witness ==
    /\ out.op = "update"
    /\ \E i, j \in DOMAIN out.ipset :
          /\ out.ipset[i].bypass
          /\ ~out.ipset[j].bypass
          /\ set[out.ipset[j].ip].local_ping = out.cond.ping + set[out.ipset[j].ip].remote_ping

(***************************************************************************)
(* SpecLoss: the proxy loss for every pair of percentages.                 *)
(***************************************************************************)
InitLoss ==
    /\ arg \in {<<c, r>> : c \in 0..100, r \in 0..100}
    /\ res = <<>>
    /\ ProfilerInit
    /\ overflow_checks = FALSE
    /\ UdpInit /\ RestInit

\* update computes proxy_lost from cond.lost = arg[1] and remote_lost = arg[2].
ComputeProxyLost ==
    /\ res = <<>>
    /\ res' = <<ProxyLost([lost |-> arg[1]], [remote_lost |-> arg[2]])>>
    /\ UNCHANGED <<arg, now, profiler_vars, udp_vars, rest_vars>>

LossNext == ComputeProxyLost

SpecLoss == InitLoss /\ [][LossNext]_vars

SRC_A == Endpoint(<<10, 0, 0, 3>>, 5353)
DST_A == Endpoint(<<8, 8, 8, 8>>, 53)
\* What TLS does during one event: it takes up to k bytes and then blocks,
\* or it takes nothing and breaks, or it takes everything and the flush
\* blocks or fails.
Accepts == {0, 4, 11, MaxAccept}
Oracles ==
    [k : Accepts, stop : {"block"}, flush : {"ok"}]
    \cup [k : {0}, stop : {"zero", "err"}, flush : {"ok"}]
    \cup [k : {MaxAccept}, stop : {"block"}, flush : {"block", "err"}]
NoWrite == [k |-> 0, stop |-> "block", flush |-> "ok"]
NoRead == [avail |-> 0, cut |-> 0, end |-> "block", room |-> 1]
\* What a readable event finds: the first five or all of the bytes in
\* flight, in one or two pieces, and then WouldBlock; or all of them and then
\* the end of the stream.
Reads(token) ==
    LET n == Len(conns[token2conns[token]].rx)
    IN  {[avail |-> a, cut |-> 0, end |-> "block", room |-> r] :
            a \in {5, n} \cap 0..n, r \in 0..1}
        \cup {[avail |-> n, cut |-> n \div 2, end |-> "block", room |-> r] :
                  r \in 0..1}
        \cup {[avail |-> n, cut |-> 0, end |-> e, room |-> 1] : e \in {"eof", "err"}}
Writable == [writable |-> TRUE, readable |-> FALSE]
Readable == [writable |-> FALSE, readable |-> TRUE]
Both == [writable |-> TRUE, readable |-> TRUE]

UdpNext ==
    \/ NewSocket(DST_A)
    \/ \E o \in Oracles : UdpDoLocal(DST_A, SRC_A, <<7>>, o, TRUE)
    \/ UdpDoLocal(DST_A, SRC_A, <<7>>, NoWrite, FALSE)
    \/ \E token \in DOMAIN token2conns, o \in Oracles :
           UdpDoRemote(token, Writable, o, NoRead)
    \/ \E token \in DOMAIN token2conns : \E inb \in Reads(token) :
           UdpDoRemote(token, Readable, NoWrite, inb)
    \/ \E token \in DOMAIN token2conns, o \in Oracles :
           UdpDoRemote(token, Both, o, NoRead)
    \/ UdpDoRemote(MAX_INDEX, Both, NoWrite, NoRead)
    \/ RelaySends(SRC_A, UdpRecord(DST_A, <<5>>))

InitUdp ==
    ProfilerInit /\ overflow_checks = FALSE /\ FnIdle /\ UdpInit /\ RestInit

SpecUdp == InitUdp /\ [][UdpNext]_vars

\* C2: after any sequence of outbound datagrams and writable events, TLS has
\* taken nothing but the next bytes of the records of the datagrams that were
\* not discarded, and the staging buffer is exactly what it has not taken.
C2_StagingIsUnwrittenSuffix ==
    \A i \in DOMAIN conns :
        ~conns[i].corrupt /\ conns[i].rbuffer = conns[i].unsent

\* C3 as stated: every record the parse loop extracts is handed to the local
\* socket and delivered, whatever the state of its send queue.
C3_EveryRecordDelivered ==
    /\ Len(uout.delivered) = Len(uout.parsed)
    /\ \A i \in DOMAIN uout.parsed :
          uout.delivered[i].payload = uout.parsed[i].payload

Taken(p) == p.accepted

\* C3: every record the parse loop extracts is delivered to the flow's source
\* endpoint once if the local socket's send queue takes it and never
\* otherwise, in the order parsed.
C3_DeliveredOnceIfTaken ==
    /\ Len(uout.delivered) = Len(SelectSeq(uout.parsed, Taken))
    /\ \A i \in DOMAIN uout.delivered :
          /\ uout.delivered[i].payload = SelectSeq(uout.parsed, Taken)[i].payload
          /\ uout.delivered[i].to = uout.src

C3_Witness ==
    /\ uout.op = "do_remote"
    /\ Len(uout.parsed) = 2
    /\ Len(uout.delivered) = 1

\* C5: once close_remote has run on a Connection no read, write or flush is
\* issued on its TlsConn, not even later in the same event, and close is
\* issued at most once.
C5_NoUseAfterClose == ~uout.misuse /\ uout.closes <= 1

\* C9: the associate preamble is written in full before any record byte: the
\* TLS stream of an established connection begins with the whole preamble.
C9_PreambleWhole ==
    \A i \in DOMAIN conns :
        conns[i].established =>
            conns[i].pre_sent = Len(Preamble) /\ ~conns[i].rec_early

\* C15: when the pool cannot supply a TLS connection for a datagram from a
\* new source, the datagram is dropped, no connection is inserted in either
\* map, and the UdpServer keeps running.
C15_PoolFailureDropsDatagram ==
    uout.op = "pool_failed" =>
        /\ ~udp_panicked
        /\ uout.src \notin DOMAIN addr2conns
        /\ \A i \in DOMAIN conns : conns[i].endpoint # uout.src

\* C10: a datagram that reaches Connection::do_local while the staging buffer
\* is not empty is discarded: nothing is written to TLS and rbuffer,
\* established and rclosed stay as they are; and the staging buffer never
\* holds more than the bytes of one record.
C10_DiscardWhileStaged ==
    /\ [][\A src \in DOMAIN addr2conns :
             (/\ conns[addr2conns[src]].rbuffer # <<>>
              /\ uout'.op = "do_local"
              /\ uout'.src = src)
             => /\ uout'.dropped
                /\ uout'.wrote = 0
                /\ uout'.closes = 0
                /\ src \in DOMAIN addr2conns'
                /\ conns'[addr2conns'[src]].rbuffer = conns[addr2conns[src]].rbuffer
                /\ conns'[addr2conns'[src]].established
                       = conns[addr2conns[src]].established
                /\ conns'[addr2conns'[src]].rclosed = conns[addr2conns[src]].rclosed]_vars
    /\ [](\A i \in DOMAIN conns :
             Len(conns[i].rbuffer) <= Len(UdpRecord(DST_A, <<7>>)))

C10_Witness == uout.op = "do_local" /\ uout.dropped

(***************************************************************************)
(* SpecIdle: one source sending to a destination and a second source       *)
(* sending to the first, while the clock runs past the idle limit; a relay *)
(* answering the first source; and check_timeout.                          *)
(***************************************************************************)
SRC_B == Endpoint(<<10, 0, 0, 3>>, 5354)
TakesAll == [k |-> MaxAccept, stop |-> "block", flush |-> "ok"]
\* The datagrams observed: (destination, source).
IdleTraffic == {<<DST_A, SRC_A>>, <<SRC_A, SRC_B>>}
ReadsWhole(token) ==
    [avail |-> Len(conns[token2conns[token]].rx), cut |-> 0, end |-> "block",
     room |-> 1]

IdleNext ==
    \/ \E dst \in {DST_A, SRC_A} : NewSocket(dst)
    \/ now + 301 <= MaxNow /\ Tick(now + 301)
    \/ \E d \in IdleTraffic : UdpDoLocal(d[1], d[2], <<7>>, TakesAll, TRUE)
    \/ \E token \in DOMAIN token2conns : UdpDoRemote(token, Writable, TakesAll, NoRead)
    \/ \E token \in DOMAIN token2conns :
           UdpDoRemote(token, Readable, NoWrite, ReadsWhole(token))
    \/ /\ SRC_A \in DOMAIN addr2conns
       /\ conns[addr2conns[SRC_A]].rx = <<>>
       /\ RelaySends(SRC_A, UdpRecord(DST_A, <<5>>))
    \/ CheckTimeout

InitIdle ==
    ProfilerInit /\ overflow_checks = FALSE /\ FnIdle /\ UdpInit /\ RestInit

SpecIdle == InitIdle /\ [][IdleNext]_vars

\* C4: a flow on which no datagram has been observed for more than 600 s is
\* in neither connection map once check_timeout has run.
C4_IdleFlowEvicted ==
    uout.op = "check_timeout" =>
        \A i \in DOMAIN conns : now - conns[i].seen <= IDLE_SECS

\* C12: check_timeout evicts no flow on which a datagram was observed, in
\* either direction, within the last 600 s.
C12_ActiveFlowKept ==
    \A r \in uout.removed : now - r.seen > IDLE_SECS

(***************************************************************************)
(* SpecFlows: two sources, each sending to two destinations, through a TLS *)
(* layer that takes everything or breaks, and a relay that answers with    *)
(* whole records from a destination the source has sent to or with a byte  *)
(* that starts no record.  The index range of next_token is shorter than   *)
(* the number of connections made, so the counter wraps.                   *)
(***************************************************************************)
DST_B == Endpoint(<<1, 1, 1, 1>>, 53)
Breaks == [k |-> 0, stop |-> "err", flush |-> "ok"]
\* What a readable event finds: all the bytes in flight, and then WouldBlock
\* or the end of the stream.
ReadsAll(token) ==
    {[avail |-> Len(conns[token2conns[token]].rx), cut |-> 0, end |-> e,
      room |-> 1] : e \in {"block", "eof"}}
Quiet(src) == Len(conns[addr2conns[src]].rx) = 0

FlowsNext ==
    \/ \E dst \in {DST_A, DST_B} : NewSocket(dst)
    \/ \E dst \in {DST_A, DST_B}, src \in {SRC_A, SRC_B}, o \in {TakesAll, Breaks} :
           UdpDoLocal(dst, src, <<7>>, o, TRUE)
    \/ \E token \in DOMAIN token2conns, o \in {TakesAll, Breaks} :
           UdpDoRemote(token, Writable, o, NoRead)
    \/ \E token \in DOMAIN token2conns : \E inb \in ReadsAll(token) :
           UdpDoRemote(token, Readable, NoWrite, inb)
    \/ \E src \in DOMAIN addr2conns :
           \E dst \in conns[addr2conns[src]].peers :
               Quiet(src) /\ RelaySends(src, UdpRecord(dst, <<5>>))
    \/ \E src \in DOMAIN addr2conns : Quiet(src) /\ RelaySends(src, <<0>>)

InitFlows ==
    ProfilerInit /\ overflow_checks = FALSE /\ FnIdle /\ UdpInit /\ RestInit

SpecFlows == InitFlows /\ [][FlowsNext]_vars

\* C11: every inbound record that is delivered reaches the local stack as a
\* datagram whose source address is the address the record carries, also
\* when the flow's source has sent to two destinations and the record comes
\* from the second.
C11_FromRecordAddr ==
    \A i \in DOMAIN uout.delivered :
        i \in DOMAIN SelectSeq(uout.parsed, Taken)
            => uout.delivered[i].from = SelectSeq(uout.parsed, Taken)[i].addr

\* C13: no two live connections carry the same token, also after next_token
\* has wrapped while connections made before the wrap are live; so every
\* live connection is the one token2conns holds for its token.
C13_TokensUnique ==
    /\ \A i, j \in DOMAIN conns : conns[i].token = conns[j].token => i = j
    /\ \A i \in DOMAIN conns :
           /\ conns[i].token \in DOMAIN token2conns
           /\ token2conns[conns[i].token] = i

(***************************************************************************)
(* SpecEvict: two sources sending to one destination through a TLS layer   *)
(* that takes everything or breaks, the second source being itself the     *)
(* destination of a socket, the clock passing the idle limit once, and     *)
(* check_timeout; the counter of next_token wraps.                         *)
(***************************************************************************)
EvictNext ==
    \/ \E dst \in {DST_A, SRC_B} : NewSocket(dst)
    \/ now = 0 /\ Tick(IDLE_SECS + 1)
    \/ \E src \in {SRC_A, SRC_B}, o \in {TakesAll, Breaks} :
           UdpDoLocal(DST_A, src, <<7>>, o, TRUE)
    \/ \E token \in DOMAIN token2conns, o \in {TakesAll, Breaks} :
           UdpDoRemote(token, Writable, o, NoRead)
    \/ CheckTimeout

InitEvict ==
    ProfilerInit /\ overflow_checks = FALSE /\ FnIdle /\ UdpInit /\ RestInit

SpecEvict == InitEvict /\ [][EvictNext]_vars

\* The Connection an operation of the UdpServer ran on, u being what the
\* operation left in uout: the one found by source for do_local, by token for
\* do_remote.
Handled(u) ==
    IF u.op = "do_local" THEN addr2conns[u.src] ELSE token2conns[u.token]

\* Connection j has the same fields and the same entries in both maps after
\* the step as before it.
Untouched(j) ==
    /\ j \in DOMAIN conns'
    /\ conns'[j] = conns[j]
    /\ \A a \in DOMAIN addr2conns :
           addr2conns[a] = j => a \in DOMAIN addr2conns' /\ addr2conns'[a] = j
    /\ \A t \in DOMAIN token2conns :
           token2conns[t] = j => t \in DOMAIN token2conns' /\ token2conns'[t] = j

RelayReports == {<<20, 0>>, <<U16_MAX, U8_MAX>>}

ChannelNext ==
    \/ Initialize
    \/ Check(IP4A)
    \/ RequestRoutineStops
    \/ \E i \in 1..Len(check_queue) : DoCheck(i, DirectProbe)
    \/ \E ord \in Orders(DOMAIN set) : Update(ord)
    \/ \E v \in RelayReports : RelayReplies(IP4A, v[1], v[2])
    \/ RelayMisbehaves
    \/ ConnBreaks
    \/ \E w, ok \in BOOLEAN : Ready(Len(wire_rx), w, ok)

InitChannel ==
    ProfilerInit /\ overflow_checks = FALSE /\ UdpInit /\ RestInit /\ FnIdle

ChannelFairness ==
    /\ WF_vars(\E w, ok \in BOOLEAN : Ready(Len(wire_rx), w, ok))
    /\ SF_vars(\E w \in BOOLEAN : Ready(Len(wire_rx), w, TRUE))

SpecChannel == InitChannel /\ [][ChannelNext]_vars /\ ChannelFairness

\* C16: whenever the ping connection is found shut down the profiler holds
\* a working ping connection again later, the pool supplying one on some
\* attempt: a failed attempt is followed by another.
C16_ChannelRestored ==
    (conn = "shutdown" /\ ~panicked) ~> (conn = "open" \/ panicked)

\* C17: a record on the ping channel whose first byte is no address type
\* tears down and re-establishes the channel and nothing else: the thread
\* that drives the profiler keeps running.
C17_MalformedRecordSurvived ==
    out.op = "ready" => ~panicked

\* C20: a metric of a row is its sentinel (255 for loss, 65535 for latency)
\* exactly when no result of its kind has been recorded for the row,
\* whatever values were reported; so a row is complete exactly when a direct
\* result and a remote result have both been recorded.
C20_SentinelIffUnrecorded ==
    \A ip \in DOMAIN set :
        LET pr == set[ip] IN
        /\ pr.local_lost = U8_MAX <=> ~pr.direct_recorded
        /\ pr.local_ping = U16_MAX <=> ~pr.direct_recorded
        /\ pr.remote_lost = U8_MAX <=> ~pr.remote_recorded
        /\ pr.remote_ping = U16_MAX <=> ~pr.remote_recorded
        /\ IsComplete(pr) <=> (pr.direct_recorded /\ pr.remote_recorded)

C20_Witness ==
    /\ IP4A \in DOMAIN set
    /\ IsComplete(set[IP4A])
    /\ set[IP4A].remote_lost = U8_MAX - 1
    /\ set[IP4A].remote_ping = U16_MAX - 1

(***************************************************************************)
(* SpecGroups: update over tables of three rows, each complete, half       *)
(* measured or not measured at all, registered 200 s or 50 s ago, iterated *)
(* in every order.                                                         *)
(***************************************************************************)
GroupRows ==
    {CompleteRow(<<40, 0>>, <<20, 0>>),
     [DefaultRow(0) EXCEPT !.local_ping = 40, !.local_lost = 0,
                           !.direct_recorded = TRUE],
     DefaultRow(0),
     DefaultRow(150)}

InitGroups ==
    /\ set \in [IPS -> GroupRows]
    /\ cond = [ping |-> COND_PING_INIT, lost |-> COND_LOST_INIT]
    /\ overflow_checks = FALSE
    /\ now = 200
    /\ check_queue = <<>>
    /\ resp_queue = <<>>
    /\ conn = "open"
    /\ send_buffer = <<>>
    /\ recv_buffer = <<>>
    /\ wire_rx = <<>>
    /\ started = TRUE
    /\ req_alive = TRUE
    /\ panicked = FALSE
    /\ out = NoOutput("new", <<>>)
    /\ decided = {}
    /\ UdpInit /\ RestInit
    /\ FnIdle

GroupsNext == \E ord \in Orders(DOMAIN set) : Update(ord)

SpecGroups == InitGroups /\ [][GroupsNext]_vars

\* C18: every update sends a decision for every row whose four metrics are
\* known, in whatever order the table is iterated and however complete and
\* incomplete rows alternate in that order.
C18_EveryCompleteRowDecided ==
    out.op = "update" =>
        \A ip \in DOMAIN set :
            IsComplete(set[ip]) => \E i \in DOMAIN out.ipset : out.ipset[i].ip = ip

\* C19: every update re-sends on the ping channel the IP of every incomplete
\* row registered more than 100 s ago, in whatever order the table is
\* iterated, and of no other row, and queues no direct probe.
C19_EveryStaleRowResent ==
    out.op = "update" =>
        /\ {out.resent[i] : i \in DOMAIN out.resent}
               = {ip \in DOMAIN set : ~IsComplete(set[ip]) /\ StaleSecs(set[ip])}
        /\ out.probe = <<>>

(***************************************************************************)
(* SpecLock: update on the profiler's thread and check_server on its own   *)
(* runtime, interleaved at every step that touches CONDITION.  The table   *)
(* holds two complete rows, so that every update decides with its copy.    *)
(***************************************************************************)
\* What check_server's rounds end with: a relay at 30 ms losing 2 echoes in
\* 100, at 120 ms losing none, at 250 ms losing 9.
ServerRounds ==
    {[avg_cost |-> 30, lost_ratio |-> 2], [avg_cost |-> 120, lost_ratio |-> 0],
     [avg_cost |-> 250, lost_ratio |-> 9]}

LockNext ==
    \/ \E r \in ServerRounds : ServerLocks(r)
    \/ ServerWritesLost
    \/ ServerWritesPing
    \/ UpdateLocks
    \/ UpdateCopies
    \/ \E ord \in Orders(DOMAIN set) : UpdateRest(ord)

InitLock ==
    /\ set = [ip \in {IP4A, IP4B} |->
                 CompleteRow(<<40, 0>>, <<20, 0>>)]
    /\ cond = InitialCondition
    /\ overflow_checks = FALSE
    /\ now = 0
    /\ check_queue = <<>>
    /\ resp_queue = <<>>
    /\ conn = "open"
    /\ send_buffer = <<>>
    /\ recv_buffer = <<>>
    /\ wire_rx = <<>>
    /\ started = TRUE
    /\ req_alive = TRUE
    /\ panicked = FALSE
    /\ out = NoOutput("new", <<>>)
    /\ decided = {}
    /\ UdpInit /\ RestInit
    /\ FnIdle

SpecLock == InitLock /\ [][LockNext]_vars

\* C21: every condition snapshot that update uses is a (ping, lost) pair that
\* one write of check_server left in CONDITION, or the pair CONDITION starts
\* with, never the lost of one write with the ping of another; and update
\* holds no read lock once it has made its copy.
C21_SnapshotIsOneWrite ==
    /\ cond_lock.update = "copied"
          => /\ cond_lock.readers = 0
             /\ cond_lock.snapshot \in cond_lock.whole \cup {InitialCondition}
    /\ out.op = "update"
          => out.cond \in cond_lock.whole \cup {InitialCondition}

\* An update has decided with the pair of one write while check_server is in
\* the middle of the next: CONDITION holds the new lost and the old ping.
C21_Witness ==
    /\ out.op = "update"
    /\ out.cond \in cond_lock.whole
    /\ cond_lock.server = "lost_written"
    /\ cond \notin cond_lock.whole \cup {InitialCondition}
    /\ cond_lock.update = "idle"

(***************************************************************************)
(* SpecMobile: the host calls into the bridge in any order, with one of    *)
(* two descriptors; the engine calls out; every worker reads its TUN and   *)
(* may fail or be told to stop.                                            *)
(***************************************************************************)
TunReads == {"packet", "wouldblock", "eof", "error"}

MobileNext ==
    \/ \E ok \in BOOLEAN : InitRust(ok)
    \/ \E granted \in BOOLEAN : OnPermissionResult(granted)
    \/ \E fd \in HostFds : OnVpnStart(fd)
    \/ OnVpnStop
    \/ \E f \in OutboundCalls, ok \in BOOLEAN : Outbound(f, ok)
    \/ \E w \in DOMAIN android.workers, r \in TunReads, ret \in {"ok", "err"} :
           WorkerReceives(w, r, ret)
    \/ \E w \in DOMAIN android.workers : WorkerStops(w)
    \/ \E w \in DOMAIN android.workers : WorkerFails(w)

InitMobile ==
    /\ ProfilerInit /\ overflow_checks = FALSE /\ UdpInit /\ FnIdle
    /\ RestInit

SpecMobile == InitMobile /\ [][MobileNext]_vars

StatusEvent(value, by) ==
    [name |-> "on_status_changed", value |-> value, by |-> by]

\* C22: every status published is 1, 2 or 3: an on_vpn_start that finds the
\* context publishes 1 (starting), a worker whose process_vpn fails
\* publishes 2 (error), an on_vpn_stop that finds the context publishes 3
\* (stopped).
C22_StatusValues ==
    /\ \A e \in android.events :
           e.name = "on_status_changed"
               => /\ e.value \in {1, 2, 3}
                  /\ e.by[1] = "on_vpn_start"
                        => e.value = 1
                  /\ e.by[1] = "worker"
                        => e.value = 2
                  /\ e.by[1] = "on_vpn_stop"
                        => e.value = 3
    /\ android.last.op = "on_vpn_start" /\ android.last.found
          => android.last.published = <<StatusEvent(1, <<"on_vpn_start", 0>>)>>
    /\ android.last.op = "on_vpn_stop" /\ android.last.found
          => android.last.published = <<StatusEvent(3, <<"on_vpn_stop", 0>>)>>
    /\ \A w \in DOMAIN android.workers :
           android.workers[w].state = "failed"
               => \E e \in android.events :
                      e = StatusEvent(2, <<"worker", w>>)

\* The three statuses have been published: a start, the failure of its
\* worker, and the stop that was called last.
C22_Witness ==
    /\ android.last.op = "on_vpn_stop" /\ android.last.found
    /\ \E w \in DOMAIN android.workers :
           /\ android.workers[w].state = "failed"
           /\ android.workers[w].read = "none"
    /\ \E e \in android.events :
           e = StatusEvent(1, <<"on_vpn_start", 0>>)

\* C23: while init_rust has stored no context, on_vpn_start, on_vpn_stop and
\* every call out to the host fail with NoPlatformContext, no worker thread
\* exists, no status has been published and the context is still absent.
C23_MissingContext ==
    /\ (android.last.op \in {"on_vpn_start", "on_vpn_stop"} \cup OutboundCalls
          /\ ~android.last.found)
          => /\ android.last.result = "NoPlatformContext"
             /\ ~android.last.spawned
             /\ android.last.published = <<>>
             /\ ~android.ctx.present
    /\ ~android.ctx.present
          => /\ android.workers = <<>>
             /\ \A e \in android.events :
                    e.name # "on_status_changed"

\* on_vpn_start was called while no context had ever been stored (only a
\* permission result had been published), and was refused.
C23_Witness ==
    /\ android.last.op = "on_vpn_start"
    /\ ~android.last.found
    /\ android.flags = <<>>
    /\ android.events # {}

C25_DescriptorLeftOpen ==
    \A fd \in HostFds : android.fds[fd] = "open"

\* on_vpn_stop has run and the worker it stopped has dropped its Session.
C25_Witness ==
    /\ android.last.op = "on_vpn_stop" /\ android.last.found
    /\ \E w \in DOMAIN android.workers :
           /\ android.workers[w].session = "dropped"
           /\ android.workers[w].state = "exited"
           /\ ~android.flags[android.workers[w].running]
           /\ android.fds[android.workers[w].fd] = "open"

(***************************************************************************)
(* SpecTun: async_run with a host that opens TCP and UDP flows to the      *)
(* relay itself and to two other destinations.                             *)
(***************************************************************************)
HostDestinations ==
    {BACK_ADDR, Endpoint(BACK_ADDR.addr, 53), Endpoint(IP4A, 443),
     Endpoint(IP4B, 53)}

TunNext ==
    \/ \E ok \in BOOLEAN : AsyncRunStarts(ok)
    \/ \E proto \in {"tcp", "udp"}, dst \in HostDestinations :
           HostSends(proto, dst)
    \/ PollDevice

InitTun ==
    /\ ProfilerInit /\ overflow_checks = FALSE /\ UdpInit /\ FnIdle
    /\ RestInit

SpecTun == InitTun /\ [][TunNext]_vars

\* C26: the relay's IP is in the device's blacklist from before the first
\* poll on, and no TCP or UDP flow worker is ever spawned for a destination
\* on the relay's IP.
C26_RelayNeverCaptured ==
    /\ device.pc = "looping" \/ device.polled
          => BACK_ADDR.addr \in device.black
    /\ \A w \in device.workers : w.dst.addr # BACK_ADDR.addr

\* The device was polled while frames to the relay were waiting, on both
\* protocols, and workers were spawned for the other destinations only.
C26_Witness ==
    /\ device.polled
    /\ [proto |-> "tcp", dst |-> BACK_ADDR] \in device.passed
    /\ [proto |-> "udp", dst |-> Endpoint(BACK_ADDR.addr, 53)] \in device.passed
    /\ \E w \in device.workers : w.proto = "tcp"
    /\ \E w \in device.workers : w.proto = "udp"

(***************************************************************************)
(* SpecSplit: remote_to_local on one Connection whose relay has sent a     *)
(* stream of whole records (arg), read in any number of readable events,   *)
(* each event's reads returning any number of bytes.  res holds the        *)
(* Connection (c; c.rx is what is still unread), every datagram delivered  *)
(* so far, how often the connection was closed, and whether some event     *)
(* ended inside a record's header or inside its payload.                   *)
(***************************************************************************)
SplitRecords ==
    {[dst |-> DST_A, data |-> <<5>>], [dst |-> DST_A, data |-> <<>>],
     [dst |-> DST_B, data |-> <<6, 7>>], [dst |-> Endpoint(IP6A, 53), data |-> <<9>>]}

RECURSIVE StreamOf(_)
StreamOf(recs) ==
    IF recs = <<>> THEN <<>>
    ELSE UdpRecord(Head(recs).dst, Head(recs).data) \o StreamOf(Tail(recs))

\* The Connection of a flow from SRC_A whose relay has sent `stream`.
Receiving(stream) ==
    [NewConnection(MIN_INDEX, DST_A, SRC_A) EXCEPT !.established = TRUE,
                                                  !.rx = stream]

InitSplit ==
    /\ ProfilerInit /\ overflow_checks = FALSE /\ UdpInit /\ RestInit
    /\ arg \in UNION {[1..n -> SplitRecords] : n \in 1..MaxRecords}
    /\ res = [c |-> Receiving(StreamOf(arg)), delivered |-> <<>>, closes |-> 0,
              in_header |-> FALSE, in_payload |-> FALSE]

\* One readable event on a connection that is still in the maps: the reads
\* return n bytes, then m bytes, then WouldBlock; the local socket accepts
\* every datagram.
ReadEvent(n, m) ==
    /\ ~res.c.rclosed
    /\ n >= 1 /\ m >= 0
    /\ n + m <= Len(res.c.rx)
    /\ LET x == RemoteToLocal(Run(res.c, 0, MaxRecords + 1),
                              [avail |-> n + m, cut |-> n, end |-> "block"])
           left == Len(x.c.lbuffer)
       IN  res' = [c |-> x.c,
                   delivered |-> res.delivered \o x.delivered,
                   closes |-> res.closes + x.closes,
                   in_header |-> res.in_header
                                 \/ (left > 0 /\ left < HeaderLen(x.c.lbuffer[1])),
                   in_payload |-> res.in_payload
                                  \/ (left > 0 /\ left >= HeaderLen(x.c.lbuffer[1]))]
    /\ UNCHANGED <<arg, now, profiler_vars, udp_vars, rest_vars>>

SplitNext ==
    \E n \in 1..Len(res.c.rx) :
        \E m \in {0, 1, Len(res.c.rx) - n} : ReadEvent(n, m)

SpecSplit == InitSplit /\ [][SplitNext]_vars

Payloads(datagrams) == [i \in DOMAIN datagrams |-> datagrams[i].payload]

\* How many of the leading records of recs lie wholly in the first n bytes
\* of their stream.
RECURSIVE WholeWithin(_, _)
WholeWithin(recs, n) ==
    IF recs = <<>> THEN 0
    ELSE LET len == Len(UdpRecord(Head(recs).dst, Head(recs).data))
         IN  IF len > n THEN 0 ELSE 1 + WholeWithin(Tail(recs), n - len)

\* C27: however the stream read so far was split into reads and events,
\* remote_to_local has delivered the payloads that the same bytes give when
\* they arrive in one read: those of the records that arrived whole, each
\* once and in stream order; and lbuffer holds exactly the bytes after the
\* last whole record.
C27_SplitReadsAgree ==
    LET stream == StreamOf(arg)
        pos == Len(stream) - Len(res.c.rx)
        one == RemoteToLocal(Run(Receiving(stream), 0, MaxRecords + 1),
                             [avail |-> pos, cut |-> pos, end |-> "block"])
        k == WholeWithin(arg, pos)
    IN  /\ Payloads(res.delivered) = Payloads(one.delivered)
        /\ res.c.lbuffer = one.c.lbuffer
        /\ Payloads(res.delivered) = [i \in 1..k |-> arg[i].data]
        /\ res.c.lbuffer = SubSeq(stream, Len(StreamOf(SubSeq(arg, 1, k))) + 1, pos)
        /\ res.closes = 0

\* Two records were read to the end in events that stopped inside a header
\* and inside a payload, and both were delivered.
C27_Witness ==
    /\ Len(arg) = 2
    /\ res.c.rx = <<>>
    /\ res.in_header /\ res.in_payload
    /\ Len(res.delivered) = 2

(***************************************************************************)
(* SpecLarge: the same harness with one record about as long as lbuffer's  *)
(* capacity: its 11-byte header and a payload of MinPayload..MaxPayload    *)
(* bytes make 1491 to 1510 bytes.  The relay's bytes arrive 250 or 500 at  *)
(* a time, or all that is left at once.                                    *)
(***************************************************************************)
MinPayload == MaxPayload - 19
Filler(len) == [i \in 1..len |-> 7]
LargeReads == {250, 500}

InitLarge ==
    /\ ProfilerInit /\ overflow_checks = FALSE /\ UdpInit /\ RestInit
    /\ arg \in {<<[dst |-> DST_A, data |-> Filler(len)]>> :
                   len \in MinPayload..MaxPayload}
    /\ res = [c |-> Receiving(StreamOf(arg)), delivered |-> <<>>, closes |-> 0,
              in_header |-> FALSE, in_payload |-> FALSE]

LargeNext ==
    \E n \in LargeReads \cup {Len(res.c.rx)} : ReadEvent(n, 0)

SpecLarge == InitLarge /\ [][LargeNext]_vars

\* C28: a partial record that fills lbuffer's 1500 bytes does not get the
\* connection closed, and the record is delivered, once, when the rest of
\* its bytes has been read.
C28_FullBufferGrows ==
    /\ res.closes = 0
    /\ ~res.c.rclosed
    /\ res.c.rx = <<>> => Payloads(res.delivered) = <<arg[1].data>>

(***************************************************************************)
(* SpecPing: the relay has written a stream of whole ping records (arg) on *)
(* the ping channel; ready reads it in pieces of any length.  The table    *)
(* has a row for IP4A and one for IP6A, none for IP4B.                     *)
(***************************************************************************)
PingReports ==
    {[ip |-> IP4A, ping |-> 20, lost |-> 0], [ip |-> IP4A, ping |-> 300, lost |-> 7],
     [ip |-> IP6A, ping |-> 40, lost |-> 2], [ip |-> IP4B, ping |-> 50, lost |-> 1]}

RECURSIVE PingStream(_)
PingStream(reports) ==
    IF reports = <<>> THEN <<>>
    ELSE PingRecord(Head(reports).ip, Head(reports).ping, Head(reports).lost)
             \o PingStream(Tail(reports))

InitPing ==
    /\ arg \in UNION {[1..n -> PingReports] : n \in 1..MaxPings}
    /\ res = <<>>
    /\ set = [ip \in {IP4A, IP6A} |-> DefaultRow(0)]
    /\ cond = InitialCondition
    /\ overflow_checks = FALSE
    /\ now = 0
    /\ check_queue = <<>>
    /\ resp_queue = <<>>
    /\ conn = "open"
    /\ send_buffer = <<>>
    /\ recv_buffer = <<>>
    /\ wire_rx = PingStream(arg)
    /\ started = TRUE
    /\ req_alive = TRUE
    /\ panicked = FALSE
    /\ out = NoOutput("new", <<>>)
    /\ decided = {}
    /\ UdpInit /\ RestInit

PingNext ==
    \E n \in 1..Len(wire_rx), writable \in BOOLEAN : Ready(n, writable, TRUE)

SpecPing == InitPing /\ [][PingNext]_vars

\* The bytes of the first k records of the stream: 8 for each record on an
\* IPv4 address, 20 for each on an IPv6 address.
RECURSIVE Consumed(_, _)
Consumed(reports, k) ==
    IF k = 0 THEN 0
    ELSE (IF Len(reports[k].ip) = 4 THEN 8 ELSE 20) + Consumed(reports, k - 1)

\* How many of the leading records lie wholly in the first n bytes.
RECURSIVE PingsWithin(_, _, _)
PingsWithin(reports, k, n) ==
    IF k < Len(reports) /\ Consumed(reports, k + 1) <= n
    THEN PingsWithin(reports, k + 1, n)
    ELSE k

\* C29: however the stream of ping records is split into reads, decode has
\* consumed exactly the records that arrived whole, 8 bytes for an IPv4
\* record and 20 for an IPv6 one, keeps the bytes of the record that is not
\* whole yet, and each row holds the ping and the loss of the last whole
\* record for its address, as after one read of the same bytes.
C29_DecodeBySplit ==
    LET stream == PingStream(arg)
        pos == Len(stream) - Len(wire_rx)
        k == PingsWithin(arg, 0, pos)
        Last(ip) == MaxOf({0} \cup {i \in 1..k : arg[i].ip = ip})
    IN  /\ ~panicked
        /\ recv_buffer = SubSeq(stream, Consumed(arg, k) + 1, pos)
        /\ \A ip \in DOMAIN set :
               IF Last(ip) = 0
               THEN ~set[ip].remote_recorded
               ELSE /\ set[ip].remote_recorded
                    /\ set[ip].remote_ping = arg[Last(ip)].ping
                    /\ set[ip].remote_lost = arg[Last(ip)].lost

\* A record for IP4A has been decoded and more than 8 but fewer than 20
\* bytes of an IPv6 record are waiting in recv_buffer.
C29_Witness ==
    /\ set[IP4A].remote_recorded
    /\ recv_buffer # <<>>
    /\ recv_buffer[1] = IPV6
    /\ Len(recv_buffer) > 8
    /\ wire_rx # <<>>

(***************************************************************************)
(* SpecProbe: one probe of 100 echoes (arg) of which the first `lead` and  *)
(* the last `tail` time out and the others take `cost` ms; do_check        *)
(* reports it for IP4A and check_server writes it to CONDITION.            *)
(***************************************************************************)
ProbeCosts == {1, 100, 999}

InitProbe ==
    /\ arg \in {Probe(lead, tail, cost) :
                   lead \in 0..MaxFailed, tail \in 0..MaxFailed, cost \in ProbeCosts}
    /\ res = <<>>
    /\ set = [ip \in {IP4A} |-> DefaultRow(0)]
    /\ cond = InitialCondition
    /\ overflow_checks = FALSE
    /\ now = 0
    /\ check_queue = <<IP4A>>
    /\ resp_queue = <<>>
    /\ conn = "open"
    /\ send_buffer = <<>>
    /\ recv_buffer = <<>>
    /\ wire_rx = <<>>
    /\ started = TRUE
    /\ req_alive = TRUE
    /\ panicked = FALSE
    /\ out = NoOutput("new", <<>>)
    /\ decided = {}
    /\ UdpInit /\ RestInit

ProbeNext ==
    \/ DoCheck(1, ProbeLoop(arg))
    \/ cond = InitialCondition /\ CheckServer(ProbeLoop(arg))

SpecProbe == InitProbe /\ [][ProbeNext]_vars

\* C30: after the 100 echoes the loss reported is the number of echoes that
\* failed, and when some echo succeeded the latency reported lies between
\* the smallest and the largest latency of the echoes that succeeded (here
\* all `cost`), for do_check's message and for check_server's write alike,
\* wherever the failed echoes are.
C30_ProbeReport ==
    /\ \A i \in DOMAIN resp_queue :
           /\ resp_queue[i][3] = arg.lead + arg.tail
           /\ resp_queue[i][2] = arg.cost
    /\ cond # InitialCondition
          => /\ cond.lost = arg.lead + arg.tail
             /\ cond.ping = arg.cost

\* C31: after every operation of the UdpServer the two maps hold the same
\* connections: a connection is stored under its source endpoint in
\* addr2conns iff the same connection is stored under its own token in
\* token2conns, and no stored connection is closed.
C31_MapsAgree ==
    /\ \A a \in DOMAIN addr2conns :
           /\ conns[addr2conns[a]].endpoint = a
           /\ conns[addr2conns[a]].token \in DOMAIN token2conns
           /\ token2conns[conns[addr2conns[a]].token] = addr2conns[a]
           /\ ~conns[addr2conns[a]].rclosed
    /\ \A t \in DOMAIN token2conns :
           /\ conns[token2conns[t]].token = t
           /\ conns[token2conns[t]].endpoint \in DOMAIN addr2conns
           /\ addr2conns[conns[token2conns[t]].endpoint] = token2conns[t]
           /\ ~conns[token2conns[t]].rclosed

(***************************************************************************)
(* SpecSum: the profiler with one destination, a relay whose health probe  *)
(* measures 1 ms or 999 ms on every echo and writes CONDITION, and a relay *)
(* that reports any latency on the ping channel, in both build profiles.   *)
(***************************************************************************)
FastRelay == ProbeLoop(Probe(0, 0, 1))
SlowRelay == ProbeLoop(Probe(0, 0, 999))

SumNext ==
    \/ Initialize
    \/ Check(IP4A)
    \/ \E i \in 1..Len(check_queue) : DoCheck(i, DirectProbe)
    \/ \E r \in {FastRelay, SlowRelay} : CheckServer(r)
    \/ \E ord \in Orders(DOMAIN set) : Update(ord)
    \/ \E v \in RelayReports : RelayReplies(IP4A, v[1], v[2])
    \/ \E w \in BOOLEAN : Ready(Len(wire_rx), w, TRUE)

InitSum ==
    ProfilerInit /\ overflow_checks \in BOOLEAN /\ UdpInit /\ RestInit /\ FnIdle

SpecSum == InitSum /\ [][SumNext]_vars

\* C32: the sum cond.ping + remote_ping that update computes for a complete
\* row never exceeds 65535, for every condition the health probe wrote and
\* every remote latency decode accepted: update neither panics on it nor
\* sends a decision made with a wrapped sum.
C32_SumFits ==
    (out.op = "update" /\ out.cond \in {ServerCondition(FastRelay),
                                       ServerCondition(SlowRelay)})
        => /\ ~panicked
           /\ \A i \in DOMAIN out.ipset :
                  out.cond.ping + set[out.ipset[i].ip].remote_ping <= U16_MAX

(***************************************************************************)
(* SpecDead: one destination whose remote result is recorded and whose     *)
(* direct probe is running; the probe loses every echo or none, the health *)
(* probe writes any of three conditions, and update decides.               *)
(***************************************************************************)
AllLost == ProbeLoop(Probe(N_ECHO, 0, 0))
DeadRemotes == {<<0, 0>>, <<20, 0>>, <<20, 100>>, <<65534, 254>>}
RemoteRow(r) ==
    [DefaultRow(0) EXCEPT !.remote_ping = r[1], !.remote_lost = r[2],
                          !.remote_recorded = TRUE]

InitDead ==
    /\ set \in [{IP4A} -> {RemoteRow(r) : r \in DeadRemotes}]
    /\ cond = InitialCondition
    /\ overflow_checks \in BOOLEAN
    /\ now = 0
    /\ check_queue = <<IP4A>>
    /\ resp_queue = <<>>
    /\ conn = "open"
    /\ send_buffer = <<>>
    /\ recv_buffer = <<>>
    /\ wire_rx = <<>>
    /\ started = TRUE
    /\ req_alive = TRUE
    /\ panicked = FALSE
    /\ out = NoOutput("new", <<>>)
    /\ decided = {}
    /\ UdpInit /\ RestInit
    /\ FnIdle

DeadNext ==
    \/ \E r \in {AllLost, DirectProbe} : DoCheck(1, r)
    \/ \E r \in {AllLost, FastRelay, SlowRelay} : CheckServer(r)
    \/ \E ord \in Orders(DOMAIN set) : Update(ord)

SpecDead == InitDead /\ [][DeadNext]_vars

\* C33: a destination whose direct probe lost all 100 echoes is never sent
\* to the routing sink with bypass = true, whatever the condition and the
\* remote measurement.
C33_DeadNeverBypassed ==
    out.op = "update"
        => \A i \in DOMAIN out.ipset :
               set[out.ipset[i].ip].local_lost = N_ECHO => ~out.ipset[i].bypass

C33_Witness ==
    /\ out.op = "update"
    /\ out.cond = ServerCondition(SlowRelay)
    /\ \E i \in DOMAIN out.ipset :
          /\ set[out.ipset[i].ip].local_lost = N_ECHO
          /\ set[out.ipset[i].ip].remote_ping = 20
          /\ ~out.ipset[i].bypass

(***************************************************************************)
(* SpecResend: the profiler with one destination whose relay may answer or *)
(* stay silent, the clock advancing 50 s at a time up to 200 s, and update  *)
(* called at any moment; res logs what every update re-sent on the ping    *)
(* channel, and when.                                                      *)
(***************************************************************************)
ResendStep == 50

\* update, logged: the IPs line 421-423 passed to send_remote_ip.
UpdateLogged(ord) ==
    /\ Len(res) < MaxResends
    /\ UpdateUsing(ord, cond)
    /\ res' = IF out'.resent = <<>> THEN res
              ELSE Append(res, [at |-> now,
                                ips |-> {out'.resent[i] : i \in DOMAIN out'.resent}])
    /\ UNCHANGED <<udp_vars, arg, rest_vars>>

ResendNext ==
    \/ Initialize
    \/ now + ResendStep <= 2 * STALE_SECS /\ Tick(now + ResendStep)
    \/ Check(IP4A)
    \/ \E i \in 1..Len(check_queue) : DoCheck(i, DirectProbe)
    \/ \E ord \in Orders(DOMAIN set) : UpdateLogged(ord)
    \/ RelayReplies(IP4A, 20, 0)
    \/ \E w \in BOOLEAN : Ready(Len(wire_rx), w, TRUE)

InitResend ==
    ProfilerInit /\ overflow_checks = FALSE /\ UdpInit /\ RestInit /\ FnIdle

SpecResend == InitResend /\ [][ResendNext]_vars

NoLeftover == [old |-> 0, mixed |-> FALSE, reset |-> FALSE]

\* ready, followed: n bytes are read, decode consumes whole records from the
\* front, and reset (lines 333-339) runs when the connection is shut down.
ReadyFollowed(n, writable, ok) ==
    /\ ReadyOn(n, writable, ok)
    /\ LET consumed == Len(recv_buffer) + n - Len(recv_buffer')
           resetting == conn = "shutdown" /\ ~panicked'
       IN  res' = [old |-> IF resetting THEN Len(recv_buffer')
                           ELSE IF res.old > consumed THEN res.old - consumed
                           ELSE 0,
                   mixed |-> res.mixed \/ (res.old > 0 /\ consumed > res.old),
                   reset |-> resetting]
    /\ UNCHANGED <<udp_vars, arg, rest_vars>>

ResetNext ==
    \/ Initialize
    \/ Check(IP4A)
    \/ RelayReplies(IP4A, 20, 0)
    \/ ConnBreaks
    \/ \E n \in 0..Len(wire_rx), w, ok \in BOOLEAN : ReadyFollowed(n, w, ok)

InitReset ==
    /\ ProfilerInit /\ overflow_checks = FALSE /\ UdpInit /\ RestInit
    /\ arg = <<>>
    /\ res = NoLeftover

SpecReset == InitReset /\ [][ResetNext]_vars

\* C35: once reset has re-established the ping channel, recv_buffer and
\* send_buffer hold no bytes that belong to the old connection, and a partial
\* record left over from the old connection is never parsed together with
\* bytes of the new one.
C35_NothingLeftOver ==
    /\ conn = "open" => res.old = 0
    /\ ~res.mixed
    /\ (out.op = "ready" /\ res.reset /\ conn = "open") => send_buffer = <<>>

(***************************************************************************)
(* SpecShell: the commands start and stop in any order, the tasks of start *)
(* running whenever the async runtime schedules them, spawn failing or     *)
(* not, and the engine ending by itself at any moment.                     *)
(***************************************************************************)
ShellNext ==
    \/ \E saved \in BOOLEAN : Start(saved)
    \/ \E t \in 1..MaxChildren, ok \in BOOLEAN : TaskSpawns(t, ok)
    \/ \E c \in 1..MaxChildren : ChildExits(c)
    \/ \E t \in 1..MaxChildren : TaskNotices(t)
    \/ \E t \in 1..MaxChildren : TaskReports(t)
    \/ Stop

InitShell ==
    ProfilerInit /\ overflow_checks = FALSE /\ UdpInit /\ RestInit /\ FnIdle

SpecShell == InitShell /\ [][ShellNext]_vars

\* C36: at most one engine child is started and alive at a time, under any
\* interleaving of start commands, a second start issued before the first
\* one's child has been recorded included.
C36_OneEngine == Cardinality(Alive(shell)) <= 1

\* C37: whenever an engine child is alive the shared state holds its handle,
\* and state-update false is emitted only when no child is alive; so after
\* stop followed by start the exit of the old child neither removes the new
\* child's handle nor reports the proxy as stopped.
C37_HandleOfLiveEngine ==
    /\ \A c \in Alive(shell) : shell.wintun = c
    /\ ~shell.stopped_alive

(***************************************************************************)
(* SpecRace: the host calls init_rust, on_vpn_start and on_vpn_stop one    *)
(* after the other, on_vpn_start up to MaxStarts times; the worker threads *)
(* run at any moment, also between the spawn in on_vpn_start and the       *)
(* status it emits afterwards.                                             *)
(***************************************************************************)
RaceNext ==
    \/ android.caller = 0 /\ InitRust(TRUE)
    \/ \E fd \in HostFds : OnVpnStartSpawns(fd)
    \/ OnVpnStartPublishes
    \/ android.caller = 0 /\ OnVpnStop
    \/ \E w \in DOMAIN android.workers, r \in TunReads, ret \in {"ok", "err"} :
           WorkerReceives(w, r, ret)
    \/ \E w \in DOMAIN android.workers : WorkerStops(w)
    \/ \E w \in DOMAIN android.workers : WorkerFails(w)

InitRace ==
    ProfilerInit /\ overflow_checks = FALSE /\ UdpInit /\ RestInit /\ FnIdle

SpecRace == InitRace /\ [][RaceNext]_vars

\* C38: for each on_vpn_start, status 1 (starting) is published before any
\* status 2 (error) caused by the worker thread that the call spawned, under
\* every interleaving of the caller and the worker.
C38_StartingBeforeError ==
    \A w \in DOMAIN android.workers :
        StatusEvent(ERROR, <<"worker", w>>) \in android.events
            => android.caller # w

\* C39: after on_vpn_stop returns, the `running` flag that every worker
\* thread started by an earlier on_vpn_start observes is false, also when
\* on_vpn_start or init_rust was called more than once before the stop.
C39_StopReachesEveryWorker ==
    (android.last.op = "on_vpn_stop" /\ android.last.result = "ok")
        => \A w \in DOMAIN android.workers :
               android.workers[w].state = "running"
                   => ~android.flags[android.workers[w].running]
====
